---- MODULE Spec2Model ----
(***************************************************************************)
(* A model of the trading-agent core of fr-icm (src/src/agent/*.rs):       *)
(* the executor (executor.rs), the agent supervisor and its learning loop  *)
(* (trading_agent.rs), the data fetcher (data_fetcher.rs), the planner     *)
(* (planner.rs) and the observer (observer.rs).                            *)
(*                                                                         *)
(* Specifications:                                                         *)
(*   Spec          the executor: start/stop, the plan loop, one task per   *)
(*                 plan (permit, expiry check, chain call, result)         *)
(*   FairSpec      Spec with the fairness of the tokio scheduler           *)
(*   AgentSpec     TradingAgent::new and TradingAgent::start: the wiring   *)
(*                 of the stages and what each stage can then do           *)
(*   FairAgentSpec AgentSpec with the fairness of the tokio scheduler      *)
(*   LearningSpec  the supervisor applying feedback adjustments            *)
(*   StrategySpec  single calls of the strategies' evaluate                *)
(*   ObserverSpec  the observer processing execution results               *)
(*   HistorySpec   ObserverSpec from a history near its capacity           *)
(*   FetcherSpec   the data fetcher's loop with a live quote receiver      *)
(*   PlannerSpec   the planner's loop on a live quote channel              *)
(*   RoutesSpec    the routes that take strategy configs for an agent      *)
(*   LockSpec      the calls that take the RwLocks of agent and planner    *)
(*   FeedbackLoopSpec, FairFeedbackLoopSpec                                *)
(*                 the learning loop next to the ticking planner           *)
(***************************************************************************)
EXTENDS Integers, Sequences, FiniteSets, TLC

\* ------------------------------------------------------------------ bounds
MaxPlans == 2            \* plans the producer sends on the plan channel
MaxConcurrent == 1       \* largest max_concurrent_executions tried
MaxTime == 1             \* Utc::now() and expires_at range over 0..MaxTime
NumPairs == 2            \* token pairs of the fetcher
MaxFetchTicks == 2       \* ticks of the fetch interval
MaxFeedbacks == 2        \* results the observer turns into feedback
MaxStarts == 2           \* calls of TradingAgent::start on one agent

PlanIds == 1..MaxPlans
Runs == 1..MaxStarts     \* the n-th call of start and the tasks it spawns

\* Option<T>: None is the empty sequence, Some(x) is <<x>>.
None == <<>>
Some(x) == <<x>>
IsSome(o) == o # None

VARIABLES
    \* --- executor (executor.rs)
    max_concurrent_executions, \* Executor::new argument
    available_permits,         \* execution_semaphore
    exec_is_active,            \* Executor.is_active
    exec_plan_receiver,        \* Executor.plan_receiver: "own" | "installed" | "none"
    exec_pc,                   \* Executor::start: position of the caller
    exec_rx,                   \* the receiver the running loop owns
    plan_chan,                 \* the installed plan channel (plans in flight)
    plan_rx_alive,             \* its receiver has not been dropped
    plans_sent,                \* number of plans the producer has sent
    plan,                      \* plan id -> the TradingPlan fields used
    pulled,                    \* plan ids in the order the loop pulled them
    task,                      \* plan id -> state of its execute_plan task
    chain_log,                 \* plan id -> outcomes of its chain calls
    results,                   \* result channel: ExecutionResults in send order
    metrics,                   \* ExecutionMetrics
    now,                       \* Utc::now()
    \* --- agent supervisor (trading_agent.rs)
    learning_enabled,          \* TradingAgentConfig.learning_enabled
    agent_pc,                  \* TradingAgent::start: position of the caller
    agent_is_running,          \* TradingAgent.is_running
    agent_state_is_active,     \* AgentState.is_active
    chan,                      \* channel -> [tx, rx: who holds the end, q: messages]
    learning_pc,               \* run -> learning_loop: position of its task
    starts,                    \* calls of TradingAgent::start so far
    config_position_size_usd,  \* TradingAgent.config: the configured position_size_usd
    strategy_config,           \* AgentState.strategy_config, the adjusted fields
    current_positions,         \* AgentState.current_positions (its keys)
    written,                   \* what apply_parameter_adjustment wrote last
    feedbacks_sent,            \* feedbacks the observer has sent
    \* --- data fetcher (data_fetcher.rs)
    fetcher_is_running,        \* DataFetcher.is_running
    fetcher_pc,                \* run -> DataFetcher::start: position of its task
    upstream,                  \* the quote API: "any", or the pairs it always answers
    first_tick,                \* start -> pairs quoted by the first tick after it
    failure_modes,             \* the errors the quote and price APIs can answer with
    tick_outcome,              \* what the fetches of the latest tick returned
    fetch_ticks,               \* ticks of the fetch interval so far
    quote_cache,               \* pair -> latest cached quote
    published,                 \* quotes handed to quote_sender.send, in order
    \* --- planner (planner.rs)
    planner_is_active,         \* Planner.is_active
    planner_pc,                \* run -> Planner::start: position of its task
    recent_quotes,             \* quotes the planner loop has received
    emitted_plans,             \* plans handed to plan_queue.send, in order
    strategies,                \* Planner.strategies: its keys in iteration order
    strategy_configs,          \* Planner.strategy_configs: tag -> config
    market_conditions,         \* Planner.market_conditions
    planner_tick,              \* what the latest evaluation tick did
    eval_ticks,                \* evaluation ticks recorded so far
    quotes_sent,               \* quotes sent to the planner so far
    \* --- the routes that make an agent (routes/agent.rs, routes/icm.rs)
    trading_agent,             \* AppState.trading_agent
    response,                  \* the latest request and what it was answered
    \* the strategies (strategy.rs)
    interval_hours,            \* DCAStrategy.interval_hours
    last_execution,            \* DCAStrategy.last_execution: pair -> time
    evaluated,                 \* the last call of Strategy::evaluate and its result
    \* the observer (observer.rs)
    execution_history,         \* Observer.execution_history
    performance_metrics,       \* Observer.performance_metrics
    active_positions,          \* Observer.active_positions (its keys)
    processed,                 \* the last result processed and its feedback
    \* the locks (tokio::sync::RwLock) and the calls that take them
    rwlock,                    \* lock -> who holds it and who waits, in order
    call_pc,                   \* call -> steps done and whether it waits
    planner_positions          \* Planner.current_positions (its keys)

execVars == <<max_concurrent_executions, available_permits, exec_is_active,
              exec_plan_receiver, exec_pc, exec_rx, plan_chan, plan_rx_alive,
              plans_sent, plan, pulled, task, chain_log, results, metrics, now>>

agentVars == <<learning_enabled, agent_pc, agent_is_running, agent_state_is_active,
               chan, learning_pc>>
learnVars == <<strategy_config, current_positions, written, feedbacks_sent>>
fetchVars == <<fetcher_is_running, fetcher_pc, fetch_ticks, quote_cache, published>>
planVars == <<planner_is_active, planner_pc, recent_quotes, emitted_plans>>
runVars == <<starts, config_position_size_usd, upstream, first_tick,
             failure_modes, tick_outcome>>
strategyVars == <<interval_hours, last_execution, evaluated>>
observerVars == <<execution_history, performance_metrics, active_positions,
                  processed>>

evalVars == <<strategies, strategy_configs, market_conditions, planner_tick,
              eval_ticks, quotes_sent, trading_agent, response>>
lockVars == <<rwlock, call_pc, planner_positions>>

vars == <<execVars, agentVars, learnVars, fetchVars, planVars, runVars,
          strategyVars, observerVars, evalVars, lockVars>>

\* ---------------------------------------------------------------- executor

\* Outcomes of IcmProgramInstance::agent_swap_tokens_transaction as seen by
\* execute_swap: a transaction, a transient failure or a rejection.
ChainOutcomes == {"Ok", "Timeout", "Rejected"}
TransientOutcomes == {"Timeout"}

\* RetryConfig::default().max_attempts (executor.rs 427); execute_plan never
\* reads it.
MaxAttempts == 3

\* The inner error text of a chain failure (may be anything, also empty).
ChainErrorText(outcome) == IF outcome = "Timeout" THEN "timeout" ELSE ""

\* map_err(|e| AgentError::TransactionFailed(format!("ICM swap failed: {}", e)))
SwapErrorMessage(outcome) == "ICM swap failed: " \o ChainErrorText(outcome)

\* e.to_string() of an AgentError::TransactionFailed. The Display of
\* AgentError is declared in agent/types.rs; it is taken to render the kind
\* followed by the message the error carries.
AgentErrorToString(message) == "Transaction failed: " \o message

\* Executor::new: neither loop nor task exists, the semaphore is full, and
\* plan_receiver holds the receiver of a channel whose sender was dropped.
ExecInit(cap) ==
    /\ max_concurrent_executions = cap
    /\ available_permits = cap
    /\ exec_is_active = FALSE
    /\ exec_plan_receiver = "own"
    /\ exec_pc = "idle"
    /\ exec_rx = "none"
    /\ plan_chan = <<>>
    /\ plan_rx_alive = TRUE
    /\ plans_sent = 0
    /\ plan = [p \in PlanIds |-> [expires_at |-> 0]]
    /\ pulled = <<>>
    /\ task = [p \in PlanIds |-> [pc |-> "none", checked |-> "none"]]
    /\ chain_log = [p \in PlanIds |-> <<>>]
    /\ results = <<>>
    /\ metrics = [total_executions |-> 0, successful_executions |-> 0,
                  failed_executions |-> 0]
    /\ now = 0

\* --- Executor::start_with_receiver (executor.rs 59-63): installs the receiver
\* of a live plan channel (its sender is the producer's plan_queue).
StartWithReceiver ==
    /\ exec_pc = "idle"
    /\ exec_plan_receiver = "own"
    /\ exec_plan_receiver' = "installed"
    /\ UNCHANGED <<max_concurrent_executions, available_permits, exec_is_active,
                   exec_pc, exec_rx, plan_chan, plan_rx_alive, plans_sent, plan,
                   pulled, task, chain_log, results, metrics, now>>
    /\ UNCHANGED <<agentVars, learnVars, fetchVars, planVars, runVars>>
    /\ UNCHANGED <<strategyVars, observerVars, evalVars, lockVars>>

\* --- Executor::start, lines 92-104: the is_active guard and plan_receiver.take().
\* A second start while active returns Ok at once; a start that finds no
\* receiver returns the "Executor already started" error and leaves is_active set.
ExecutorStart ==
    /\ exec_pc \in {"idle", "returned", "failed"}
    /\ IF exec_is_active
         THEN UNCHANGED <<exec_is_active, exec_plan_receiver, exec_pc, exec_rx>>
         ELSE /\ exec_is_active' = TRUE
              /\ exec_plan_receiver' = "none"
              /\ IF exec_plan_receiver = "none"
                   THEN exec_pc' = "failed" /\ exec_rx' = "none"
                   ELSE exec_pc' = "loop_top" /\ exec_rx' = exec_plan_receiver
    /\ UNCHANGED <<max_concurrent_executions, available_permits, plan_chan,
                   plan_rx_alive, plans_sent, plan, pulled, task, chain_log,
                   results, metrics, now>>
    /\ UNCHANGED <<agentVars, learnVars, fetchVars, planVars, runVars>>
    /\ UNCHANGED <<strategyVars, observerVars, evalVars, lockVars>>

\* --- Executor::start, line 106: while *self.is_active.read().await.
\* Leaving the loop returns Ok and drops the receiver the loop owned.
ExecLoopTop ==
    /\ exec_pc = "loop_top"
    /\ IF exec_is_active
         THEN /\ exec_pc' = "recv"
              /\ UNCHANGED <<exec_rx, plan_chan, plan_rx_alive>>
         ELSE /\ exec_pc' = "returned"
              /\ exec_rx' = "none"
              /\ plan_rx_alive' = (plan_rx_alive /\ exec_rx # "installed")
              /\ plan_chan' = IF exec_rx = "installed" THEN <<>> ELSE plan_chan
    /\ UNCHANGED <<max_concurrent_executions, available_permits, exec_is_active,
                   exec_plan_receiver, plans_sent, plan, pulled, task,
                   chain_log, results, metrics, now>>
    /\ UNCHANGED <<agentVars, learnVars, fetchVars, planVars, runVars>>
    /\ UNCHANGED <<strategyVars, observerVars, evalVars, lockVars>>

\* --- Executor::start, lines 107-123: select! { Some(plan) = recv() => spawn }.
\* The installed channel yields the next plan; its task is spawned and waits
\* for a permit.
ExecLoopRecv ==
    /\ exec_pc = "recv"
    /\ exec_rx = "installed"
    /\ plan_chan # <<>>
    /\ LET p == Head(plan_chan) IN
         /\ plan_chan' = Tail(plan_chan)
         /\ pulled' = Append(pulled, p)
         /\ task' = [task EXCEPT ![p].pc = "spawned"]
    /\ exec_pc' = "loop_top"
    /\ UNCHANGED <<max_concurrent_executions, available_permits, exec_is_active,
                   exec_plan_receiver, exec_rx, plan_rx_alive, plans_sent, plan,
                   chain_log, results, metrics, now>>
    /\ UNCHANGED <<agentVars, learnVars, fetchVars, planVars, runVars>>
    /\ UNCHANGED <<strategyVars, observerVars, evalVars, lockVars>>

\* The receiver made by Executor::new belongs to a channel whose only sender
\* was dropped in new: recv() yields None, the only select! branch is disabled
\* and select! without an else branch panics.
ExecLoopRecvClosed ==
    /\ exec_pc = "recv"
    /\ exec_rx = "own"
    /\ exec_pc' = "panicked"
    /\ exec_rx' = "none"
    /\ UNCHANGED <<max_concurrent_executions, available_permits, exec_is_active,
                   exec_plan_receiver, plan_chan, plan_rx_alive, plans_sent, plan,
                   pulled, task, chain_log, results, metrics, now>>
    /\ UNCHANGED <<agentVars, learnVars, fetchVars, planVars, runVars>>
    /\ UNCHANGED <<strategyVars, observerVars, evalVars, lockVars>>

\* --- Executor::stop (executor.rs 131-135)
ExecutorStop ==
    /\ exec_is_active
    /\ exec_is_active' = FALSE
    /\ UNCHANGED <<max_concurrent_executions, available_permits,
                   exec_plan_receiver, exec_pc, exec_rx, plan_chan, plan_rx_alive,
                   plans_sent, plan, pulled, task, chain_log, results, metrics, now>>
    /\ UNCHANGED <<agentVars, learnVars, fetchVars, planVars, runVars>>
    /\ UNCHANGED <<strategyVars, observerVars, evalVars, lockVars>>

\* The producer's plan_queue.send(plan), for a plan with any expires_at (in
\* the past, now or in the future). The send fails, and the plan is lost,
\* once the receiver of the channel has been dropped.
SendPlan ==
    /\ plans_sent < MaxPlans
    /\ plans_sent' = plans_sent + 1
    /\ \E e \in 0..MaxTime :
         plan' = [plan EXCEPT ![plans_sent + 1] = [expires_at |-> e]]
    /\ plan_chan' = IF plan_rx_alive THEN Append(plan_chan, plans_sent + 1)
                                     ELSE plan_chan
    /\ UNCHANGED <<max_concurrent_executions, available_permits, exec_is_active,
                   exec_plan_receiver, exec_pc, exec_rx, plan_rx_alive, pulled,
                   task, chain_log, results, metrics, now>>
    /\ UNCHANGED <<agentVars, learnVars, fetchVars, planVars, runVars>>
    /\ UNCHANGED <<strategyVars, observerVars, evalVars, lockVars>>

\* Utc::now() advances.
Tick ==
    /\ now < MaxTime
    /\ now' = now + 1
    /\ UNCHANGED <<max_concurrent_executions, available_permits, exec_is_active,
                   exec_plan_receiver, exec_pc, exec_rx, plan_chan, plan_rx_alive,
                   plans_sent, plan, pulled, task, chain_log, results, metrics>>
    /\ UNCHANGED <<agentVars, learnVars, fetchVars, planVars, runVars>>
    /\ UNCHANGED <<strategyVars, observerVars, evalVars, lockVars>>

\* ------------------------------------------------ ExecutorHandle::execute_plan

\* States of a task in which it holds an execution permit.
HoldingPcs == {"acquired", "expired", "valid", "emitted"}
Holders == {p \in PlanIds : task[p].pc \in HoldingPcs}

PermitAvailable_NoWait == TRUE

\* Semaphore::acquire completes only while a permit is available.
PermitAvailable == available_permits > 0

IsExpired_Never(t, expires_at) == FALSE

\* executor.rs 189: if Utc::now() > plan.expires_at
IsExpired(t, expires_at) == t > expires_at

\* How the clock stood against expires_at when the check ran (kept per task).
Relation(t, expires_at) ==
    IF t < expires_at THEN "before" ELSE IF t = expires_at THEN "at" ELSE "after"

\* ExecutionResult (executor.rs 35-45). Its execution_time_ms, gas_used,
\* actual_slippage_bps and timestamp decide nothing in the executor and are
\* left out, and with them the averages and sums update_metrics keeps of them.

\* executor.rs 386-396: the ExecutionResult built by send_failure_result
FailureResult(plan_id, error) ==
    [plan_id |-> plan_id, success |-> FALSE, transaction_signature |-> None,
     error_message |-> Some(error)]

SwapResult_NoMessage(plan_id, outcome) ==
    IF outcome = "Ok"
      THEN [plan_id |-> plan_id, success |-> TRUE,
            transaction_signature |-> Some("tx"), error_message |-> None]
      ELSE [plan_id |-> plan_id, success |-> FALSE,
            transaction_signature |-> None, error_message |-> None]

\* executor.rs 196-217: the ExecutionResult built from execute_swap's outcome
SwapResult(plan_id, outcome) ==
    IF outcome = "Ok"
      THEN [plan_id |-> plan_id, success |-> TRUE,
            transaction_signature |-> Some("tx"), error_message |-> None]
      ELSE [plan_id |-> plan_id, success |-> FALSE,
            transaction_signature |-> None,
            error_message |-> Some(AgentErrorToString(SwapErrorMessage(outcome)))]

\* executor.rs 354-362: update_metrics, the counters
UpdateMetrics(m, r) ==
    [total_executions |-> m.total_executions + 1,
     successful_executions |-> m.successful_executions + (IF r.success THEN 1 ELSE 0),
     failed_executions |-> m.failed_executions + (IF r.success THEN 0 ELSE 1)]

\* executor.rs 177-184: the task obtains its permit.
Acquire(p) ==
    /\ task[p].pc = "spawned"
    /\ PermitAvailable
    /\ available_permits' = available_permits - 1
    /\ task' = [task EXCEPT ![p].pc = "acquired"]
    /\ UNCHANGED <<max_concurrent_executions, exec_is_active, exec_plan_receiver,
                   exec_pc, exec_rx, plan_chan, plan_rx_alive, plans_sent, plan,
                   pulled, chain_log, results, metrics, now>>
    /\ UNCHANGED <<agentVars, learnVars, fetchVars, planVars, runVars>>
    /\ UNCHANGED <<strategyVars, observerVars, evalVars, lockVars>>

AfterExpired_FallThrough == "valid"

\* Where execute_plan goes after the failure result of an expired plan:
\* to drop(permit) and return.
AfterExpired == "expired"

\* executor.rs 188-194: the expiry check; an expired plan gets the
\* "Plan expired" failure result (send_failure_result, 386-403).
CheckExpiry(p) ==
    /\ task[p].pc = "acquired"
    /\ IF IsExpired(now, plan[p].expires_at)
         THEN LET r == FailureResult(p, "Plan expired") IN
              /\ metrics' = UpdateMetrics(metrics, r)
              /\ results' = Append(results, r)
              /\ task' = [task EXCEPT ![p].pc = AfterExpired,
                                      ![p].checked = Relation(now, plan[p].expires_at)]
         ELSE /\ task' = [task EXCEPT ![p].pc = "valid",
                                      ![p].checked = Relation(now, plan[p].expires_at)]
              /\ UNCHANGED <<metrics, results>>
    /\ UNCHANGED <<max_concurrent_executions, available_permits, exec_is_active,
                   exec_plan_receiver, exec_pc, exec_rx, plan_chan, plan_rx_alive,
                   plans_sent, plan, pulled, chain_log, now>>
    /\ UNCHANGED <<agentVars, learnVars, fetchVars, planVars, runVars>>
    /\ UNCHANGED <<strategyVars, observerVars, evalVars, lockVars>>

\* executor.rs 196-225: one call of execute_swap, whatever its outcome, then
\* update_metrics and the send of the result.
ExecuteSwap(p) ==
    /\ task[p].pc = "valid"
    /\ \E outcome \in ChainOutcomes :
         LET r == SwapResult(p, outcome) IN
         /\ chain_log' = [chain_log EXCEPT ![p] = Append(@, outcome)]
         /\ metrics' = UpdateMetrics(metrics, r)
         /\ results' = Append(results, r)
    /\ task' = [task EXCEPT ![p].pc = "emitted"]
    /\ UNCHANGED <<max_concurrent_executions, available_permits, exec_is_active,
                   exec_plan_receiver, exec_pc, exec_rx, plan_chan, plan_rx_alive,
                   plans_sent, plan, pulled, now>>
    /\ UNCHANGED <<agentVars, learnVars, fetchVars, planVars, runVars>>
    /\ UNCHANGED <<strategyVars, observerVars, evalVars, lockVars>>

\* executor.rs 192 and 227: drop(permit)
Release(p) ==
    /\ task[p].pc \in {"expired", "emitted"}
    /\ available_permits' = available_permits + 1
    /\ task' = [task EXCEPT ![p].pc = "done"]
    /\ UNCHANGED <<max_concurrent_executions, exec_is_active, exec_plan_receiver,
                   exec_pc, exec_rx, plan_chan, plan_rx_alive, plans_sent, plan,
                   pulled, chain_log, results, metrics, now>>
    /\ UNCHANGED <<agentVars, learnVars, fetchVars, planVars, runVars>>
    /\ UNCHANGED <<strategyVars, observerVars, evalVars, lockVars>>

TaskStep(p) == Acquire(p) \/ CheckExpiry(p) \/ ExecuteSwap(p) \/ Release(p)


\* ------------------------------------------------------------------ channels
\* Every mpsc::unbounded_channel() the agent's construction and start create.
Channels == {"quote",        \* DataFetcher::new (data_fetcher.rs 38)
             "plan",         \* Planner::new (planner.rs 33)
             "exec_own",     \* Executor::new (executor.rs 68)
             "result",       \* Executor::new (executor.rs 69)
             "exec_spare",   \* Executor::new (executor.rs 87)
             "obs_exec",     \* Observer::new (observer.rs 111)
             "feedback",     \* Observer::new (observer.rs 112)
             "position",     \* Observer::new (observer.rs 113)
             "dummy_quote"}  \* TradingAgent::start (trading_agent.rs 154)

Endpoint(tx, rx) == [tx |-> tx, rx |-> rx, q |-> <<>>]

\* UnboundedSender::send: the message is queued unless the receiver is gone.
SendOn(ch, c, msg) ==
    IF ch[c].rx = "dropped" THEN ch ELSE [ch EXCEPT ![c].q = Append(@, msg)]

\* ------------------------------------------------- agent-state configuration
\* Adjustments and position sizes are f64 in the source; here they are
\* fixed-point numbers with Scale units to 1.0.
Scale == 100

Clamp_NoUpper(x, lo, hi) == IF x < lo THEN lo ELSE x

\* f64::clamp
Clamp(x, lo, hi) == IF x < lo THEN lo ELSE IF x > hi THEN hi ELSE x

\* `as u8` / `as u16` of an f64: truncation towards zero, saturating.
FloatAsUnsigned(x, max) ==
    LET t == IF x >= 0 THEN x \div Scale ELSE -((-x) \div Scale) IN
    IF t < 0 THEN 0 ELSE IF t > max THEN max ELSE t

KnownParams == {"priority_fee_percentile", "max_slippage_bps", "position_size_multiplier"}

\* trading_agent.rs 279-307: apply_parameter_adjustment, the value it writes
\* for param_name (adjustment in Scale units).
AdjustedValue(cfg, param_name, adjustment) ==
    CASE param_name = "priority_fee_percentile" ->
           FloatAsUnsigned(Clamp(cfg.priority_fee_percentile * Scale + adjustment,
                                 50 * Scale, 99 * Scale), 255)
      [] param_name = "max_slippage_bps" ->
           FloatAsUnsigned(Clamp(cfg.max_slippage_bps * Scale + adjustment,
                                 10 * Scale, 500 * Scale), 65535)
      [] param_name = "position_size_multiplier" ->
           Clamp((cfg.position_size_usd * (Scale + adjustment)) \div Scale,
                 100 * Scale, 10000 * Scale)

\* trading_agent.rs 264-276: process_learning_feedback applies every entry of
\* suggested_adjustments; an unknown name is logged and changes nothing.
ApplyFeedback(cfg, fb) ==
    LET has(n) == n \in DOMAIN fb IN
    [priority_fee_percentile |->
        IF has("priority_fee_percentile")
          THEN AdjustedValue(cfg, "priority_fee_percentile", fb["priority_fee_percentile"])
          ELSE cfg.priority_fee_percentile,
     max_slippage_bps |->
        IF has("max_slippage_bps")
          THEN AdjustedValue(cfg, "max_slippage_bps", fb["max_slippage_bps"])
          ELSE cfg.max_slippage_bps,
     position_size_usd |->
        IF has("position_size_multiplier")
          THEN AdjustedValue(cfg, "position_size_multiplier", fb["position_size_multiplier"])
          ELSE cfg.position_size_usd]

\* The writes process_learning_feedback makes for one feedback.
WritesOf(cfg, fb) ==
    {[param |-> n, value |-> AdjustedValue(cfg, n, fb[n])] : n \in DOMAIN fb \cap KnownParams}

QualityAdjustments_FairShrinks(quality) ==
    CASE quality = "Poor" ->
           ("priority_fee_percentile" :> 5 * Scale) @@ ("max_slippage_bps" :> 10 * Scale)
           @@ ("position_size_multiplier" :> -10)
      [] quality = "Fair" ->
           ("priority_fee_percentile" :> 2 * Scale) @@ ("max_slippage_bps" :> 5 * Scale)
           @@ ("position_size_multiplier" :> -10)
      [] quality = "Good" -> ("position_size_multiplier" :> 5)
      [] quality = "Excellent" ->
           ("priority_fee_percentile" :> -1 * Scale) @@ ("position_size_multiplier" :> 10)

\* observer.rs 338-371: generate_parameter_adjustments, per quality bucket
QualityAdjustments(quality) ==
    CASE quality = "Poor" ->
           ("priority_fee_percentile" :> 5 * Scale) @@ ("max_slippage_bps" :> 10 * Scale)
           @@ ("position_size_multiplier" :> -10)
      [] quality = "Fair" ->
           ("priority_fee_percentile" :> 2 * Scale) @@ ("max_slippage_bps" :> 5 * Scale)
      [] quality = "Good" -> ("position_size_multiplier" :> 5)
      [] quality = "Excellent" ->
           ("priority_fee_percentile" :> -1 * Scale) @@ ("position_size_multiplier" :> 10)

\* The suggested_adjustments maps tried: the observer's four, and maps with
\* large, negative and unknown entries (LearningFeedback is a public struct).
Feedbacks ==
    {QualityAdjustments(q) : q \in {"Poor", "Fair", "Good", "Excellent"}}
    \cup {("priority_fee_percentile" :> 300 * Scale) @@ ("max_slippage_bps" :> 70000 * Scale),
          ("priority_fee_percentile" :> -300 * Scale) @@ ("max_slippage_bps" :> -70000 * Scale)
          @@ ("position_size_multiplier" :> -200),
          ("priority_fee_percentile" :> 150) @@ ("max_slippage_bps" :> -50),
          ("min_spread_bps" :> Scale)}

\* Position keys the observer sends: "{plan_id}_{timestamp}" (observer.rs 255),
\* none of which parses as a Pubkey (trading_agent.rs 318-322).
ParsesAsPubkey(key) == FALSE

\* --------------------------------------------------------- TradingAgent::new
\* trading_agent.rs 54-119. The receivers new gets back from DataFetcher::new,
\* Planner::new and Executor::new (quote_receiver, plan_receiver, _plan_rx,
\* execution_receiver) and from Observer::new (_exec_rx) are locals dropped
\* when new returns; only learning_receiver and position_receiver are kept.
\* Executor::new and Observer::new drop plan_sender, plan_tx and exec_sender.
AgentNew(learning, cfg) ==
    /\ learning_enabled = learning
    /\ agent_pc = "created"
    /\ agent_is_running = FALSE
    /\ agent_state_is_active = FALSE
    /\ chan = [c \in Channels |->
                 CASE c = "quote"       -> Endpoint("fetcher", "dropped")
                   [] c = "plan"        -> Endpoint("planner", "dropped")
                   [] c = "exec_own"    -> Endpoint("dropped", "executor")
                   [] c = "result"      -> Endpoint("executor", "dropped")
                   [] c = "exec_spare"  -> Endpoint("dropped", "dropped")
                   [] c = "obs_exec"    -> Endpoint("dropped", "dropped")
                   [] c = "feedback"    -> Endpoint("observer", "agent")
                   [] c = "position"    -> Endpoint("observer", "agent")
                   [] c = "dummy_quote" -> Endpoint("none", "none")]
    /\ learning_pc = [r \in Runs |-> "none"]
    /\ strategy_config = cfg
    /\ config_position_size_usd = cfg.position_size_usd
    /\ current_positions = {}
    /\ written = {}
    /\ feedbacks_sent = 0
    /\ fetcher_is_running = FALSE
    /\ fetcher_pc = [r \in Runs |-> "none"]
    /\ fetch_ticks = 0
    /\ quote_cache = <<>>
    /\ published = <<>>
    /\ first_tick = [r \in Runs |-> None]
    /\ tick_outcome = None
    /\ planner_is_active = FALSE
    /\ planner_pc = [r \in Runs |-> "none"]
    /\ recent_quotes = <<>>
    /\ emitted_plans = <<>>
    /\ starts = 0

\* config.strategy_configs.first(), or default_strategy_config (406-434)
DefaultConfig ==
    [priority_fee_percentile |-> 75, max_slippage_bps |-> 100,
     position_size_usd |-> 1000 * Scale]

\* --- TradingAgent::start, lines 122-201: the guard, the flags and the spawns.
\* The fetcher loop is spawned; the planner loop is spawned on the receiver
\* of a fresh channel whose sender is dropped at the end of the block; the
\* tasks spawned for the executor and the observer only log; the learning
\* loop is spawned with what learning_receiver.take() and
\* position_receiver.take() yield: the two receivers on the first start, None
\* on every later one. start takes &mut self, so a further call begins only
\* once the previous one has returned or its future was dropped.
AgentStart ==
    /\ agent_pc \in {"created", "returned", "dropped"}
    /\ ~agent_is_running
    /\ starts < MaxStarts
    /\ starts' = starts + 1
    /\ agent_is_running' = TRUE
    /\ agent_state_is_active' = TRUE
    /\ fetcher_pc' = [fetcher_pc EXCEPT ![starts + 1] = "spawned"]
    /\ planner_pc' = [planner_pc EXCEPT ![starts + 1] = "spawned"]
    /\ LET taken == learning_enabled /\ chan["feedback"].rx = "agent" IN
         /\ chan' = [chan EXCEPT
                       !["dummy_quote"] = Endpoint("dropped", "planner_loop"),
                       !["feedback"].rx = IF taken THEN "learning_loop" ELSE @,
                       !["position"].rx = IF taken THEN "learning_loop" ELSE @]
         /\ learning_pc' = [learning_pc EXCEPT ![starts + 1] =
                              IF ~learning_enabled THEN @
                              ELSE IF taken THEN "spawned" ELSE "spawned_none"]
    /\ agent_pc' = "waiting"
    /\ UNCHANGED <<learning_enabled, execVars, learnVars, fetcher_is_running,
                   fetch_ticks, quote_cache, published, planner_is_active,
                   recent_quotes, emitted_plans, config_position_size_usd,
                   upstream, first_tick, failure_modes, tick_outcome>>
    /\ UNCHANGED <<strategyVars, observerVars, evalVars, lockVars>>

\* --- TradingAgent::start, lines 203-216: once is_running is false the
\* stages are told to stop and start returns.
AgentCleanup ==
    /\ agent_pc = "waiting"
    /\ ~agent_is_running
    /\ fetcher_is_running' = FALSE
    /\ planner_is_active' = FALSE
    /\ exec_is_active' = FALSE
    /\ agent_pc' = "returned"
    /\ UNCHANGED <<max_concurrent_executions, available_permits,
                   exec_plan_receiver, exec_pc, exec_rx, plan_chan, plan_rx_alive,
                   plans_sent, plan, pulled, task, chain_log, results, metrics, now>>
    /\ UNCHANGED <<learning_enabled, agent_is_running, agent_state_is_active, chan,
                   learning_pc, learnVars, fetcher_pc, fetch_ticks, quote_cache,
                   published, planner_pc, recent_quotes, emitted_plans, runVars>>
    /\ UNCHANGED <<strategyVars, observerVars, evalVars, lockVars>>

\* --- TradingAgent::start, lines 204-206: the caller drops the future of
\* start while it sleeps in the wait loop; the lines after the loop never run.
AgentStartDropped ==
    /\ agent_pc = "waiting"
    /\ agent_pc' = "dropped"
    /\ UNCHANGED <<learning_enabled, agent_is_running, agent_state_is_active, chan,
                   learning_pc, execVars, learnVars, fetchVars, planVars, runVars>>
    /\ UNCHANGED <<strategyVars, observerVars, evalVars, lockVars>>

\* --- TradingAgent::stop (trading_agent.rs 219-232)
AgentStop ==
    /\ agent_is_running
    /\ agent_is_running' = FALSE
    /\ agent_state_is_active' = FALSE
    /\ UNCHANGED <<learning_enabled, agent_pc, chan, learning_pc, execVars,
                   learnVars, fetchVars, planVars, runVars>>
    /\ UNCHANGED <<strategyVars, observerVars, evalVars, lockVars>>

\* -------------------------------------------------------- DataFetcher::start
\* DataFetcher.token_pairs: NumPairs distinct pairs of mints. Mints are base58
\* strings, which have no "_"; the pairs put the same letters in two ways.
PairList == << <<"A", "BC">>, <<"AB", "C">>, <<"A", "C">>, <<"C", "A">> >>
token_pairs == [i \in 1..NumPairs |-> PairList[i]]

\* data_fetcher.rs 156-193: the quote parsed from the answer for a pair on a
\* tick; its mints are the ones of the request, which the body echoes and
\* which are the fallback when the body lacks them.
Quote(pair, tick) ==
    [pair |-> pair, tick |-> tick,
     input_mint |-> token_pairs[pair][1], output_mint |-> token_pairs[pair][2]]

CacheKey_NoSeparator(quote) == quote.input_mint \o quote.output_mint

\* data_fetcher.rs 86: format!("{}_{}", quote.input_mint, quote.output_mint)
CacheKey(quote) == quote.input_mint \o "_" \o quote.output_mint

\* DashMap::insert
CachePut(cache, key, value) ==
    [k \in DOMAIN cache \cup {key} |-> IF k = key THEN value ELSE cache[k]]

RECURSIVE CacheAll(_, _)
CacheAll(cache, qs) ==
    IF qs = <<>> THEN cache
    ELSE CacheAll(CachePut(cache, CacheKey(Head(qs)), Head(qs)), Tail(qs))

TickQuotes_SkipCached(ok, tick) ==
    SelectSeq([i \in 1..NumPairs |-> Quote(i, tick)],
              LAMBDA x : x.pair \in ok /\ CacheKey(x) \notin DOMAIN quote_cache)

\* The quotes of one tick, in token_pairs order, for the fetches that succeeded.
TickQuotes(ok, tick) ==
    SelectSeq([i \in 1..NumPairs |-> Quote(i, tick)], LAMBDA x : x.pair \in ok)

RECURSIVE SendAll(_, _, _)
SendAll(ch, c, msgs) ==
    IF msgs = <<>> THEN ch ELSE SendAll(SendOn(ch, c, Head(msgs)), c, Tail(msgs))

\* The errors of fetch_quote_for_pair (data_fetcher.rs 139-153): a non-2xx
\* status, a failed request, a body that is not JSON.
FetchErrors == {"JupiterApi", "Network", "Parse"}
\* update_token_prices (data_fetcher.rs 256-292) returns Ok or an error.
PriceOutcomes == {"Ok", "Err"}

AllFailureModes == [fetch |-> FetchErrors, prices |-> PriceOutcomes]
\* the APIs, when they fail, answering with a status
StatusFailureModes == [fetch |-> {"JupiterApi"}, prices |-> {"Ok"}]

\* What one tick met: the pairs fetched, the error of every other pair, the
\* outcome of the price update, and whether quote_sender.send failed.
TickOutcome(ok, errors, prices, send_failed) ==
    [fetched |-> ok, errors |-> errors, prices |-> prices,
     send_failed |-> send_failed]

AfterTick_FailureEnds(outcome) ==
    IF outcome.fetched # 1..NumPairs \/ outcome.prices = "Err" \/ outcome.send_failed
      THEN "returned" ELSE "loop_top"

\* data_fetcher.rs 83-113: every Err arm logs and falls through; the body of
\* the while loop ends and its condition is read again.
AfterTick(outcome) == "loop_top"

\* data_fetcher.rs 54-65
FetcherStart(r) ==
    /\ fetcher_pc[r] = "spawned"
    /\ IF fetcher_is_running
         THEN /\ fetcher_pc' = [fetcher_pc EXCEPT ![r] = "returned"]
              /\ UNCHANGED fetcher_is_running
         ELSE /\ fetcher_pc' = [fetcher_pc EXCEPT ![r] = "loop_top"]
              /\ fetcher_is_running' = TRUE
    /\ UNCHANGED <<execVars, agentVars, learnVars, fetch_ticks, quote_cache,
                   published, planVars, runVars>>
    /\ UNCHANGED <<strategyVars, observerVars, evalVars, lockVars>>

\* data_fetcher.rs 67: while *self.is_running.read().await
FetcherLoopTop(r) ==
    /\ fetcher_pc[r] = "loop_top"
    /\ fetcher_pc' = [fetcher_pc EXCEPT ![r] =
                        IF fetcher_is_running THEN "tick" ELSE "returned"]
    /\ UNCHANGED <<execVars, agentVars, learnVars, fetcher_is_running, fetch_ticks,
                   quote_cache, published, planVars, runVars>>
    /\ UNCHANGED <<strategyVars, observerVars, evalVars, lockVars>>

\* data_fetcher.rs 68-113: one tick. Every pair is fetched; each quote fetched
\* is cached and handed to quote_sender.send; a failed fetch, a failed send and
\* a failed price update are logged and the loop goes on. The pairs quoted
\* by the first tick after each call of TradingAgent::start are noted in
\* first_tick. The record of ticks (fetch_ticks, quote_cache, published,
\* tick_outcome) is kept for the first MaxFetchTicks ticks; the loop itself
\* goes on ticking after them.
FetcherTick(r) ==
    /\ fetcher_pc[r] = "tick"
    /\ \E ok \in upstream :
       \E errors \in [(1..NumPairs) \ ok -> failure_modes.fetch] :
       \E prices \in failure_modes.prices :
         LET qs == TickQuotes(ok, fetch_ticks + 1)
             outcome == TickOutcome(ok, errors, prices,
                                    qs # <<>> /\ chan["quote"].rx = "dropped")
         IN
         /\ first_tick' = IF IsSome(first_tick[starts]) THEN first_tick
                          ELSE [first_tick EXCEPT ![starts] =
                                  Some({qs[i].pair : i \in 1..Len(qs)})]
         /\ IF fetch_ticks < MaxFetchTicks
              THEN /\ fetch_ticks' = fetch_ticks + 1
                   /\ quote_cache' = CacheAll(quote_cache, qs)
                   /\ published' = published \o qs
                   /\ chan' = SendAll(chan, "quote", qs)
                   /\ tick_outcome' = Some(outcome)
              ELSE UNCHANGED <<fetch_ticks, quote_cache, published, chan,
                               tick_outcome>>
         /\ fetcher_pc' = [fetcher_pc EXCEPT ![r] = AfterTick(outcome)]
    /\ UNCHANGED <<execVars, learning_enabled, agent_pc, agent_is_running,
                   agent_state_is_active, learning_pc, learnVars,
                   fetcher_is_running, planVars, starts,
                   config_position_size_usd, upstream, failure_modes>>
    /\ UNCHANGED <<strategyVars, observerVars, evalVars, lockVars>>

\* DataFetcher::stop (data_fetcher.rs 120-124)
FetcherStop ==
    /\ fetcher_is_running
    /\ fetcher_is_running' = FALSE
    /\ UNCHANGED <<execVars, agentVars, learnVars, fetcher_pc, fetch_ticks,
                   quote_cache, published, planVars, runVars>>
    /\ UNCHANGED <<strategyVars, observerVars, evalVars, lockVars>>

\* The holder of the receiver DataFetcher::new returned (data_fetcher.rs 50)
\* drops it; the quotes queued on it go with it.
DropQuoteReceiver ==
    /\ chan["quote"].rx \notin {"dropped", "none"}
    /\ chan' = [chan EXCEPT !["quote"].rx = "dropped", !["quote"].q = <<>>]
    /\ UNCHANGED <<execVars, learning_enabled, agent_pc, agent_is_running,
                   agent_state_is_active, learning_pc, learnVars, fetchVars,
                   planVars, runVars>>
    /\ UNCHANGED <<strategyVars, observerVars, evalVars, lockVars>>

\* ------------------------------------------------ TradingAgent::learning_loop
\* trading_agent.rs 241-244: what start handed over is unwrapped; unwrap
\* panics on None.
LearningStart(r) ==
    /\ learning_pc[r] \in {"spawned", "spawned_none"}
    /\ learning_pc' = [learning_pc EXCEPT ![r] =
                         IF @ = "spawned" THEN "loop_top" ELSE "panicked"]
    /\ UNCHANGED <<execVars, learning_enabled, agent_pc, agent_is_running,
                   agent_state_is_active, chan, learnVars, fetchVars, planVars,
                   runVars>>
    /\ UNCHANGED <<strategyVars, observerVars, evalVars, lockVars>>

\* trading_agent.rs 246: while *is_running.read().await; leaving the loop
\* drops both receivers.
LearningLoopTop(r) ==
    /\ learning_pc[r] = "loop_top"
    /\ IF agent_is_running
         THEN /\ learning_pc' = [learning_pc EXCEPT ![r] = "select"]
              /\ UNCHANGED chan
         ELSE /\ learning_pc' = [learning_pc EXCEPT ![r] = "returned"]
              /\ chan' = [chan EXCEPT !["feedback"].rx = "dropped",
                                      !["position"].rx = "dropped"]
    /\ UNCHANGED <<execVars, learning_enabled, agent_pc, agent_is_running,
                   agent_state_is_active, learnVars, fetchVars, planVars, runVars>>
    /\ UNCHANGED <<strategyVars, observerVars, evalVars, lockVars>>

\* trading_agent.rs 249-251: a feedback arrives; process_learning_feedback
\* (264-276) applies its adjustments to the agent state.
LearningRecvFeedback(r) ==
    /\ learning_pc[r] = "select"
    /\ chan["feedback"].q # <<>>
    /\ LET fb == Head(chan["feedback"].q) IN
         /\ strategy_config' = ApplyFeedback(strategy_config, fb)
         /\ written' = WritesOf(strategy_config, fb)
    /\ chan' = [chan EXCEPT !["feedback"].q = Tail(@)]
    /\ learning_pc' = [learning_pc EXCEPT ![r] = "loop_top"]
    /\ UNCHANGED <<execVars, learning_enabled, agent_pc, agent_is_running,
                   agent_state_is_active, current_positions, feedbacks_sent,
                   fetchVars, planVars, runVars>>
    /\ UNCHANGED <<strategyVars, observerVars, evalVars, lockVars>>

\* trading_agent.rs 254-256: a positions map arrives; update_agent_positions
\* (310-327) keeps the entries whose key parses as a Pubkey.
LearningRecvPositions(r) ==
    /\ learning_pc[r] = "select"
    /\ chan["position"].q # <<>>
    /\ current_positions' = {k \in Head(chan["position"].q) : ParsesAsPubkey(k)}
    /\ chan' = [chan EXCEPT !["position"].q = Tail(@)]
    /\ learning_pc' = [learning_pc EXCEPT ![r] = "loop_top"]
    /\ UNCHANGED <<execVars, learning_enabled, agent_pc, agent_is_running,
                   agent_state_is_active, strategy_config, written, feedbacks_sent,
                   fetchVars, planVars, runVars>>
    /\ UNCHANGED <<strategyVars, observerVars, evalVars, lockVars>>

\* observer.rs 201-211 as the learning loop sees it: for one processed result
\* the observer sends one feedback and then its positions map.
ObserverEmit ==
    /\ feedbacks_sent < MaxFeedbacks
    /\ feedbacks_sent' = feedbacks_sent + 1
    /\ \E fb \in Feedbacks :
         chan' = SendOn(SendOn(chan, "feedback", fb), "position",
                        {<<feedbacks_sent + 1, now>>})
    /\ UNCHANGED <<execVars, learning_enabled, agent_pc, agent_is_running,
                   agent_state_is_active, learning_pc, strategy_config,
                   current_positions, written, fetchVars, planVars, runVars>>
    /\ UNCHANGED <<strategyVars, observerVars, evalVars, lockVars>>

\* ---------------------------------------------------------------- strategies
\* Times of the strategies are in seconds; confidence_score is in thousandths;
\* volatility_24h, liquidity_score and price_impact_pct are in 1/Scale.
Milli == 1000
SecondsPerHour == 3600
ArbitrageTtl == 30       \* Duration::seconds(30)
DcaTtlHours == 1         \* Duration::hours(1)
MaxClock == 3660         \* the latest time of an evaluation
MaxNowDrift == 1         \* seconds between the two Utc::now() calls of a plan

\* The gaps between evaluation ticks: half an hour, and a minute more.
ClockSteps == {1800, 1860}

StrategyNone == [kind |-> "None", plan |-> None]
StrategyErr == [kind |-> "Err", plan |-> None]
StrategyPanic == [kind |-> "Panic", plan |-> None]
StrategyPlan(pl) == [kind |-> "Plan", plan |-> Some(pl)]

\* strategy.rs 103: (quote.price_impact_pct * 100.0) as u16
PriceImpactBps(quote) == FloatAsUnsigned(quote.price_impact_pct * 100, 65535)

\* strategy.rs 104: a sum of u16 (kept to 16 bits; the quotes tried stay
\* below the width)
TotalFeesBps(quote) ==
    (quote.slippage_bps + quote.platform_fee_bps + PriceImpactBps(quote)) % 65536

\* strategy.rs 107-109: ((output / input - 1.0) * 10000.0) as u16
RawSpread(quote) ==
    IF quote.output_amount <= quote.input_amount THEN 0
    ELSE LET x == ((quote.output_amount - quote.input_amount) * 10000)
                      \div quote.input_amount
         IN  IF x > 65535 THEN 65535 ELSE x

SaturatingSub(a, b) == IF a > b THEN a - b ELSE 0

CalculateEffectiveSpread_NoFees(quote) ==
    IF quote.input_amount = 0 \/ quote.output_amount = 0 THEN 0
    ELSE RawSpread(quote)

\* strategy.rs 97-115
CalculateEffectiveSpread(quote) ==
    IF quote.input_amount = 0 \/ quote.output_amount = 0 THEN 0
    ELSE SaturatingSub(RawSpread(quote), TotalFeesBps(quote))

\* strategy.rs 117-135
CheckMarketConditions(conditions) ==
    /\ ~(conditions.volatility_24h > 15)
    /\ ~(conditions.liquidity_score < 30)

\* strategy.rs 213-219; a division by min_spread 0 gives an infinity or a
\* NaN, and min(0.9) of either is 0.9
CalculateConfidence(spread_bps, config) ==
    IF config.min_spread_bps = 0 THEN 9 * (Milli \div 10)
    ELSE LET c == 300 + (200 * spread_bps) \div config.min_spread_bps
         IN  IF c > 900 THEN 900 ELSE c

\* strategy.rs 221-226: base_fee + rand % jitter, for the least and the
\* greatest remainder; jitter 0 is a remainder by zero, a panic.
Jitter(config) == config.max_priority_fee_lamports \div 10

PriorityFees(config) ==
    {config.max_priority_fee_lamports + j : j \in {0, Jitter(config) - 1}}

\* strategy.rs 158-211
CreateTradingPlan(quote, config, spread_bps, t) ==
    IF ~quote.mints_valid THEN {StrategyErr}
    ELSE IF Jitter(config) = 0 THEN {StrategyPanic}
    ELSE {StrategyPlan([strategy_type |-> "Arbitrage",
                        pair |-> quote.pair,
                        min_output_amount |-> quote.output_amount,
                        priority_fee |-> fee,
                        confidence_score |-> CalculateConfidence(spread_bps, config),
                        max_slippage_bps |-> config.max_slippage_bps,
                        ai_reasoning |-> "strategy",
                        created_at |-> t,
                        expires_at |-> t + d + ArbitrageTtl]) :
            fee \in PriorityFees(config), d \in 0..MaxNowDrift}

\* strategy.rs 35-75: ArbitrageStrategy::evaluate, the results it can have
ArbitrageEvaluate(quote, conditions, position_value, config, t) ==
    LET spread_bps == CalculateEffectiveSpread(quote) IN
    IF spread_bps < config.min_spread_bps THEN {StrategyNone}
    ELSE IF ~CheckMarketConditions(conditions) THEN {StrategyNone}
    ELSE IF position_value > config.max_position_size_usd THEN {StrategyErr}
    ELSE CreateTradingPlan(quote, config, spread_bps, t)

\* chrono Duration::num_hours
NumHours(seconds) == seconds \div SecondsPerHour

CreateDcaPlan_Surcharge(quote, config, t) ==
    IF ~quote.mints_valid THEN {StrategyErr}
    ELSE {StrategyPlan([strategy_type |-> "DCA",
                        pair |-> quote.pair,
                        min_output_amount |-> (quote.output_amount * 105) \div 100,
                        priority_fee |-> config.max_priority_fee_lamports \div 2,
                        confidence_score |-> 8 * (Milli \div 10),
                        max_slippage_bps |-> config.max_slippage_bps,
                        ai_reasoning |-> "strategy",
                        created_at |-> t,
                        expires_at |-> t + d + DcaTtlHours * SecondsPerHour]) :
            d \in 0..MaxNowDrift}

\* strategy.rs 353-396
CreateDcaPlan(quote, config, t) ==
    IF ~quote.mints_valid THEN {StrategyErr}
    ELSE {StrategyPlan([strategy_type |-> "DCA",
                        pair |-> quote.pair,
                        min_output_amount |-> (quote.output_amount * 95) \div 100,
                        priority_fee |-> config.max_priority_fee_lamports \div 2,
                        confidence_score |-> 8 * (Milli \div 10),
                        max_slippage_bps |-> config.max_slippage_bps,
                        ai_reasoning |-> "strategy",
                        created_at |-> t,
                        expires_at |-> t + d + DcaTtlHours * SecondsPerHour]) :
            d \in 0..MaxNowDrift}

\* strategy.rs 315-334: DCAStrategy::evaluate, the results it can have
DcaEvaluate(quote, config, t) ==
    IF /\ IsSome(last_execution[quote.pair])
       /\ NumHours(t - last_execution[quote.pair][1]) < interval_hours
      THEN {StrategyNone}
      ELSE CreateDcaPlan(quote, config, t)

\* DCAStrategy::new (346-351), called with 24 by the factory (407); nothing
\* has been evaluated.
StrategyNew ==
    /\ interval_hours \in {1, 24}
    /\ last_execution = [pair \in 1..NumPairs |-> None]
    /\ evaluated = None

\* The quotes tried: no output, a loss, and a gain of 1000 bps with and
\* without price impact, for every pair; and one whose mints do not parse.
Quotes ==
    [pair : 1..NumPairs, input_amount : {1000000},
     output_amount : {0, 900000, 1100000},
     slippage_bps : {50}, platform_fee_bps : {0}, price_impact_pct : {0, 50},
     mints_valid : {TRUE}]
    \cup [pair : 1..NumPairs, input_amount : {1000000}, output_amount : {1100000},
          slippage_bps : {50}, platform_fee_bps : {0}, price_impact_pct : {0},
          mints_valid : {FALSE}]

\* Market conditions and the value of the current positions: all within the
\* limits (at them, for the market), and each of the three checks failing.
Checks ==
    {[volatility_24h |-> 15, liquidity_score |-> 30, position_value |-> 0],
     [volatility_24h |-> 16, liquidity_score |-> 30, position_value |-> 0],
     [volatility_24h |-> 15, liquidity_score |-> 29, position_value |-> 0],
     [volatility_24h |-> 15, liquidity_score |-> 30, position_value |-> 10001]}

Configs ==
    [min_spread_bps : {500, 950, 951, 1000},
     max_slippage_bps : {100},
     max_priority_fee_lamports : {5, 100000},
     max_position_size_usd : {10000}]

\* One call of ArbitrageStrategy::evaluate.
EvaluateArbitrage ==
    /\ \E quote \in {q \in Quotes : q.pair = 1}, checks \in Checks,
          config \in Configs :
         \E result \in ArbitrageEvaluate(quote, checks, checks.position_value,
                                         config, now) :
              evaluated' = Some([strategy |-> "Arbitrage", quote |-> quote,
                                 checks |-> checks, config |-> config,
                                 at |-> now, result |-> result])
    /\ UNCHANGED <<interval_hours, last_execution>>
    /\ UNCHANGED <<execVars, agentVars, learnVars, fetchVars, planVars, runVars,
                   observerVars, evalVars, lockVars>>

\* One call of DCAStrategy::evaluate. evaluate takes &self and last_execution
\* is written nowhere.
EvaluateDca ==
    /\ \E quote \in {q \in Quotes : q.output_amount = 1100000
                                    /\ q.price_impact_pct = 0},
          checks \in Checks,
          config \in {c \in Configs : c.min_spread_bps = 500} :
         \E result \in DcaEvaluate(quote, config, now) :
              evaluated' = Some([strategy |-> "DCA", quote |-> quote,
                                 checks |-> checks, config |-> config,
                                 at |-> now, result |-> result])
    /\ UNCHANGED <<interval_hours, last_execution>>
    /\ UNCHANGED <<execVars, agentVars, learnVars, fetchVars, planVars, runVars,
                   observerVars, evalVars, lockVars>>

\* Utc::now() advances between two evaluation ticks.
AdvanceClock ==
    /\ \E step \in ClockSteps :
         /\ now + step <= MaxClock
         /\ now' = now + step
    /\ UNCHANGED <<max_concurrent_executions, available_permits, exec_is_active,
                   exec_plan_receiver, exec_pc, exec_rx, plan_chan, plan_rx_alive,
                   plans_sent, plan, pulled, task, chain_log, results, metrics>>
    /\ UNCHANGED <<agentVars, learnVars, fetchVars, planVars, runVars,
                   strategyVars, observerVars, evalVars, lockVars>>

\* ------------------------------------------------------------------- planner
MaxEvalTicks == 1        \* evaluation ticks whose record is kept
MaxQuotes == 2           \* quotes sent to a planner on its own

\* The strategy tags (StrategyType).
StrategyTypes ==
    {"Arbitrage", "GridTrading", "DCA", "MeanReversion", "TrendFollowing"}

\* strategy.rs 404-412: StrategyFactory::create_strategy, the strategy object
\* made for a tag
CreateStrategy(strategy_type) ==
    CASE strategy_type = "Arbitrage"      -> "ArbitrageStrategy"
      [] strategy_type = "GridTrading"    -> "GridTradingStrategy"
      [] strategy_type = "DCA"            -> "DCAStrategy"
      [] strategy_type = "MeanReversion"  -> "ArbitrageStrategy"
      [] strategy_type = "TrendFollowing" -> "ArbitrageStrategy"

\* Strategy::evaluate of the object kept for a tag, on the planner's positions
\* map, which is empty (Planner::update_positions has no caller).
\* GridTradingStrategy::evaluate (strategy.rs 243-261, 284-304) returns
\* Ok(None) on every path.
StrategyEvaluate(strategy_type, quote, conditions, config, t) ==
    LET strategy == CreateStrategy(strategy_type) IN
    CASE strategy = "ArbitrageStrategy" ->
           ArbitrageEvaluate(quote, conditions, 0, config, t)
      [] strategy = "GridTradingStrategy" -> {StrategyNone}
      [] strategy = "DCAStrategy" -> DcaEvaluate(quote, config, t)

\* planner.rs 376-383
DefaultMarketConditions ==
    [volatility_24h |-> 5, volume_24h |-> 1000000, price_trend |-> "Sideways",
     liquidity_score |-> 50]

\* planner.rs 386-414: default_strategy_config, the fields the strategies read
DefaultStrategyConfig ==
    [min_spread_bps |-> 50, max_slippage_bps |-> 100,
     max_priority_fee_lamports |-> 100000, max_position_size_usd |-> 10000]

RECURSIVE SeqSum(_)
SeqSum(xs) == IF xs = <<>> THEN 0 ELSE Head(xs) + SeqSum(Tail(xs))

\* the integer square root
ISqrt(x, max) == CHOOSE r \in 0..max : r * r <= x /\ (r + 1) * (r + 1) > x

\* planner.rs 312-318: the price of a quote, here in thousandths
PricePerMille(quote) ==
    IF quote.output_amount > 0 /\ quote.input_amount > 0
      THEN (quote.output_amount * 1000) \div quote.input_amount
      ELSE 1000

\* planner.rs 306-373: update_market_conditions on a non-empty window. The
\* volatility is the population standard deviation of the prices and the
\* liquidity is 1 - min(mean price impact, 1), both truncated to 1/Scale.
UpdateMarketConditions(window) ==
    LET n == Len(window)
        prices == [i \in 1..n |-> PricePerMille(window[i])]
        sum == SeqSum(prices)
        squares == SeqSum([i \in 1..n |-> prices[i] * prices[i]])
        first == prices[1]
        last == prices[n]
        avg_spread == SeqSum([i \in 1..n |-> window[i].price_impact_pct]) \div n
    IN  [volatility_24h |->
            IF n > 1 THEN ISqrt(n * squares - sum * sum, sum) \div (n * 10) ELSE 0,
         volume_24h |-> SeqSum([i \in 1..n |-> window[i].input_amount]),
         price_trend |->
            IF n >= 2
              THEN IF (last - first) * 100 > 2 * first THEN "Bullish"
                   ELSE IF (last - first) * 100 < -(2 * first) THEN "Bearish"
                   ELSE "Sideways"
              ELSE "Sideways",
         liquidity_score |->
            Scale - (IF avg_spread > Scale THEN Scale ELSE avg_spread)]

\* The outcomes of AIClient::analyze_trading_opportunity (ai_client.rs 48-59):
\* an error (request failed or timed out, status not 2xx, body not parsed), or
\* a response with the confidence and risk_score of its body, which
\* parse_ai_response (323-354) takes as any number. Both are in thousandths.
AdvisorErr == [ok |-> FALSE, confidence |-> 0, risk_score |-> 0]
AdvisorResponses ==
    {[ok |-> TRUE, confidence |-> 800, risk_score |-> 300],
     [ok |-> TRUE, confidence |-> 800, risk_score |-> 1500],
     [ok |-> TRUE, confidence |-> 1500, risk_score |-> 300],
     [ok |-> TRUE, confidence |-> 0, risk_score |-> 300]}
AdvisorOutcomes == {AdvisorErr} \cup AdvisorResponses

\* planner.rs 291-297, in thousandths
BaseScore(strategy_type) ==
    CASE strategy_type = "Arbitrage"      -> 900
      [] strategy_type = "GridTrading"    -> 600
      [] strategy_type = "DCA"            -> 500
      [] strategy_type = "MeanReversion"  -> 700
      [] strategy_type = "TrendFollowing" -> 800

\* planner.rs 286-303: calculate_strategy_priority, in units of 10^-9
CalculateStrategyPriority(strategy_type, ai_response) ==
    BaseScore(strategy_type)
        * (ai_response.confidence * (Milli - ai_response.risk_score))

\* planner.rs 210-214: sort_by with b_score.partial_cmp(&a_score), a stable
\* sort: each key goes after the keys already placed whose score is not lower.
RECURSIVE SortByPriority(_, _)
SortByPriority(keys, ai_response) ==
    IF keys = <<>> THEN <<>>
    ELSE LET n == Len(keys)
             sorted == SortByPriority(SubSeq(keys, 1, n - 1), ai_response)
             key == keys[n]
             score(k) == CalculateStrategyPriority(k, ai_response)
             before == {i \in 1..Len(sorted) : score(sorted[i]) >= score(key)}
             at == Cardinality(before)
         IN  SubSeq(sorted, 1, at) \o <<key>> \o SubSeq(sorted, at + 1, Len(sorted))

\* The order in which a tick goes through the strategies: the sorted keys on
\* the advisor-guided path (planner.rs 207-217), the iteration order of the
\* strategies map on the standard path (planner.rs 262).
StrategyOrder(keys, ai_response) ==
    IF ai_response.ok THEN SortByPriority(keys, ai_response) ELSE keys

\* recent_quotes.iter().rev().take(k)
NewestFirst(window, k) ==
    LET m == IF Len(window) < k THEN Len(window) ELSE k IN
    [i \in 1..m |-> window[Len(window) + 1 - i]]

\* planner.rs 227-235: the plan of the advisor-guided path
EnhancePlan(pl, ai_response) ==
    [pl EXCEPT !.ai_reasoning = "advisor",
               !.confidence_score = (@ * ai_response.confidence) \div Milli]

Done(plans) == [kind |-> "Done", plans |-> plans]
Panicked == [kind |-> "Panic", plans |-> <<>>]

RECURSIVE StrategyOnQuotes_NoBreak(_, _, _, _, _)
StrategyOnQuotes_NoBreak(strategy_type, quotes, conditions, config, t) ==
    IF quotes = <<>> THEN {Done(<<>>)}
    ELSE LET rest == StrategyOnQuotes_NoBreak(strategy_type, Tail(quotes),
                                              conditions, config, t)
         IN  UNION {CASE res.kind = "Plan" ->
                           {[kind |-> r.kind, plans |-> <<res.plan[1]>> \o r.plans] :
                               r \in rest}
                      [] res.kind = "None" -> rest
                      [] res.kind = "Err" -> {Done(<<>>)}
                      [] res.kind = "Panic" -> {Panicked} :
                    res \in StrategyEvaluate(strategy_type, Head(quotes),
                                             conditions, config, t)}

\* planner.rs 223-252 and 264-280: one strategy on the quotes of a tick,
\* newest first, until a plan (sent, break), an error (break) or the end; the
\* plans it hands to plan_queue.send. A panic inside evaluate unwinds the
\* planner task.
RECURSIVE StrategyOnQuotes(_, _, _, _, _)
StrategyOnQuotes(strategy_type, quotes, conditions, config, t) ==
    IF quotes = <<>> THEN {Done(<<>>)}
    ELSE UNION {CASE res.kind = "Plan" -> {Done(<<res.plan[1]>>)}
                  [] res.kind = "None" ->
                       StrategyOnQuotes(strategy_type, Tail(quotes), conditions,
                                        config, t)
                  [] res.kind = "Err" -> {Done(<<>>)}
                  [] res.kind = "Panic" -> {Panicked} :
                res \in StrategyEvaluate(strategy_type, Head(quotes), conditions,
                                         config, t)}

\* planner.rs 217-254 and 262-282: the strategies of order, one after the
\* other, each on quotes under conditions; what each handed to the plan
\* channel, up to a panic.
RECURSIVE EvaluateInOrder(_, _, _, _)
EvaluateInOrder(order, quotes, conditions, ai_response) ==
    IF order = <<>> THEN {[evaluations |-> <<>>, panicked |-> FALSE]}
    ELSE LET strategy_type == Head(order)
             sent(plans) == IF ai_response.ok
                              THEN [i \in 1..Len(plans) |->
                                      EnhancePlan(plans[i], ai_response)]
                              ELSE plans
             entry(plans) == [strategy |-> strategy_type, plans |-> sent(plans)]
         IN  UNION {IF r.kind = "Panic"
                      THEN {[evaluations |-> <<entry(<<>>)>>, panicked |-> TRUE]}
                      ELSE {[evaluations |-> <<entry(r.plans)>> \o rest.evaluations,
                             panicked |-> rest.panicked] :
                              rest \in EvaluateInOrder(Tail(order), quotes,
                                                       conditions, ai_response)} :
                    r \in StrategyOnQuotes(strategy_type, quotes, conditions,
                                           strategy_configs[strategy_type], now)}

\* the plans of a tick in the order they were handed to plan_queue.send
RECURSIVE PlansOf(_)
PlansOf(evaluations) ==
    IF evaluations = <<>> THEN <<>>
    ELSE Head(evaluations).plans \o PlansOf(Tail(evaluations))

\* planner.rs 28-57: Planner::new. keys is the iteration order of the
\* strategies map, which the HashMap fixes in a way the program does not
\* control; every configured tag has its config.
PlannerNew(keys, config) ==
    /\ strategies = keys
    /\ strategy_configs = [k \in {keys[i] : i \in 1..Len(keys)} |-> config]
    /\ market_conditions = DefaultMarketConditions
    /\ planner_tick = None
    /\ eval_ticks = 0
    /\ quotes_sent = 0

\* planner.rs 60-76
PlannerStart(r) ==
    /\ planner_pc[r] = "spawned"
    /\ IF planner_is_active
         THEN /\ planner_pc' = [planner_pc EXCEPT ![r] = "returned"]
              /\ UNCHANGED planner_is_active
         ELSE /\ planner_pc' = [planner_pc EXCEPT ![r] = "loop_top"]
              /\ planner_is_active' = TRUE
    /\ UNCHANGED <<execVars, agentVars, learnVars, fetchVars, recent_quotes,
                   emitted_plans, runVars>>
    /\ UNCHANGED <<strategyVars, observerVars, evalVars, lockVars>>

\* planner.rs 78: while *self.is_active.read().await
PlannerLoopTop(r) ==
    /\ planner_pc[r] = "loop_top"
    /\ planner_pc' = [planner_pc EXCEPT ![r] =
                        IF planner_is_active THEN "select" ELSE "returned"]
    /\ UNCHANGED <<execVars, agentVars, learnVars, fetchVars, planner_is_active,
                   recent_quotes, emitted_plans, runVars>>
    /\ UNCHANGED <<strategyVars, observerVars, evalVars, lockVars>>

\* planner.rs 151-153, 240-242, 269-271: a failed plan_queue.send is logged
\* and the evaluation goes on; the task is where it would be without it.
AfterSends(send_failed) == "loop_top"

\* planner.rs 81-97: the quote branch of select!. The quote joins the window
\* (the oldest leaves past 100), the market conditions are recomputed from the
\* window, and the strategy kept under the Arbitrage tag is evaluated on this
\* quote (138-165).
PlannerRecvQuote(r) ==
    /\ planner_pc[r] = "select"
    /\ \E c \in Channels :
         /\ chan[c].rx = "planner_loop"
         /\ chan[c].q # <<>>
         /\ LET quote == Head(chan[c].q)
                pushed == Append(recent_quotes, quote)
                window == IF Len(pushed) > 100 THEN Tail(pushed) ELSE pushed
                conditions == UpdateMarketConditions(window)
                order == SelectSeq(strategies, LAMBDA k : k = "Arbitrage")
                received == [chan EXCEPT ![c].q = Tail(@)]
            IN  /\ recent_quotes' = window
                /\ market_conditions' = conditions
                /\ \E out \in EvaluateInOrder(order, <<quote>>, conditions,
                                              AdvisorErr) :
                     LET plans == PlansOf(out.evaluations) IN
                     /\ emitted_plans' = emitted_plans \o plans
                     /\ chan' = SendAll(received, "plan", plans)
                     /\ planner_pc' =
                          [planner_pc EXCEPT ![r] =
                             IF out.panicked THEN "panicked"
                             ELSE AfterSends(plans # <<>>
                                             /\ chan["plan"].rx = "dropped")]
    /\ UNCHANGED <<execVars, learning_enabled, agent_pc, agent_is_running,
                   agent_state_is_active, learning_pc, learnVars, fetchVars,
                   planner_is_active, runVars>>
    /\ UNCHANGED <<strategies, strategy_configs, planner_tick, eval_ticks,
                   quotes_sent, trading_agent, response, lockVars>>
    /\ UNCHANGED <<strategyVars, observerVars>>

\* planner.rs 99-104: the timer branch of select!. With an empty window the
\* tick does nothing. Otherwise perform_comprehensive_evaluation (168-195)
\* asks the advisor and evaluates the strategies on the newest five quotes in
\* sorted order with its answer (198-255), or on the newest three in map
\* order without it (258-283). The record of ticks (planner_tick,
\* emitted_plans, the sends) is kept for the first MaxEvalTicks evaluations;
\* the loop itself goes on ticking after them.
PlannerTick(r) ==
    /\ planner_pc[r] = "select"
    /\ IF recent_quotes = <<>>
         THEN /\ planner_pc' = [planner_pc EXCEPT ![r] = "loop_top"]
              /\ UNCHANGED <<emitted_plans, chan, planner_tick, eval_ticks>>
         ELSE \E ai_response \in AdvisorOutcomes :
                LET order == StrategyOrder(strategies, ai_response)
                    quotes == NewestFirst(recent_quotes,
                                          IF ai_response.ok THEN 5 ELSE 3)
                IN  \E out \in EvaluateInOrder(order, quotes, market_conditions,
                                               ai_response) :
                      LET plans == PlansOf(out.evaluations)
                          send_failed == plans # <<>> /\ chan["plan"].rx = "dropped"
                      IN  /\ IF eval_ticks < MaxEvalTicks
                               THEN /\ eval_ticks' = eval_ticks + 1
                                    /\ emitted_plans' = emitted_plans \o plans
                                    /\ chan' = SendAll(chan, "plan", plans)
                                    /\ planner_tick' =
                                         Some([advisor |-> ai_response,
                                               evaluations |-> out.evaluations,
                                               panicked |-> out.panicked,
                                               send_failed |-> send_failed])
                               ELSE UNCHANGED <<emitted_plans, chan, planner_tick,
                                                eval_ticks>>
                          /\ planner_pc' =
                               [planner_pc EXCEPT ![r] =
                                  IF out.panicked THEN "panicked"
                                  ELSE AfterSends(send_failed)]
    /\ UNCHANGED <<execVars, learning_enabled, agent_pc, agent_is_running,
                   agent_state_is_active, learning_pc, learnVars, fetchVars,
                   planner_is_active, recent_quotes, runVars>>
    /\ UNCHANGED <<strategies, strategy_configs, market_conditions, quotes_sent,
                   trading_agent, response, lockVars>>
    /\ UNCHANGED <<strategyVars, observerVars>>

\* Planner::stop (planner.rs 113-117)
PlannerStop ==
    /\ planner_is_active
    /\ planner_is_active' = FALSE
    /\ UNCHANGED <<execVars, agentVars, learnVars, fetchVars, planner_pc,
                   recent_quotes, emitted_plans, runVars>>
    /\ UNCHANGED <<strategyVars, observerVars, evalVars, lockVars>>

\* The quotes sent to a planner on its own: a loss and a gain of 1000 bps on
\* the first pair, and a gain whose mints do not parse.
PlannerQuotes ==
    {q \in Quotes : q.pair = 1 /\ q.price_impact_pct = 0 /\ q.output_amount # 0}

\* The holder of the sender of the quote channel sends a quote.
SendQuote ==
    /\ quotes_sent < MaxQuotes
    /\ \E c \in Channels :
         /\ chan[c].rx = "planner_loop"
         /\ chan[c].tx = "caller"
         /\ \E quote \in PlannerQuotes : chan' = SendOn(chan, c, quote)
    /\ quotes_sent' = quotes_sent + 1
    /\ UNCHANGED <<execVars, learning_enabled, agent_pc, agent_is_running,
                   agent_state_is_active, learning_pc, learnVars, fetchVars,
                   planVars, runVars>>
    /\ UNCHANGED <<strategies, strategy_configs, market_conditions, planner_tick,
                   eval_ticks, trading_agent, response, lockVars>>
    /\ UNCHANGED <<strategyVars, observerVars>>

\* The holder of the receiver Planner::new returned (planner.rs 56) drops it;
\* the plans queued on it go with it.
DropPlanReceiver ==
    /\ chan["plan"].rx \notin {"dropped", "none"}
    /\ chan' = [chan EXCEPT !["plan"].rx = "dropped", !["plan"].q = <<>>]
    /\ UNCHANGED <<execVars, learning_enabled, agent_pc, agent_is_running,
                   agent_state_is_active, learning_pc, learnVars, fetchVars,
                   planVars, runVars>>
    /\ UNCHANGED <<strategyVars, observerVars, evalVars, lockVars>>

\* --------------------------------------------------- strategy config ingestion
\* rebalance_threshold_pct is in 1/10000: 0.01 is 100, 0.05 is 500, 0.1 is
\* 1000 and 5.0 is 50000.

\* strategy.rs 81-89, 268-273, 340-342: Strategy::validate_parameters of the
\* strategy object
ValidateParameters(strategy, params) ==
    CASE strategy = "ArbitrageStrategy" ->
           IF params.min_spread_bps < 10 THEN "Configuration"
           ELSE IF params.max_slippage_bps > 500 THEN "Configuration"
           ELSE "Ok"
      [] strategy = "GridTradingStrategy" ->
           IF params.rebalance_threshold_pct < 100
              \/ params.rebalance_threshold_pct > 1000
             THEN "Configuration"
             ELSE "Ok"
      [] strategy = "DCAStrategy" -> "Ok"

\* strategy.rs 413-416
ValidateStrategyConfig(config) ==
    ValidateParameters(CreateStrategy(config.strategy_type), config)

UnwrapOr(opt, default) == IF opt = None THEN default ELSE opt[1]

\* routes/agent.rs 273-314: convert_strategy_request; an unknown tag is an
\* error, absent fields take their defaults
ConvertStrategyRequest(req) ==
    IF req.strategy_type \notin StrategyTypes
      THEN [ok |-> FALSE, config |-> None]
      ELSE [ok |-> TRUE,
            config |-> Some([strategy_type |-> req.strategy_type,
                             min_spread_bps |-> UnwrapOr(req.min_spread_bps, 50),
                             max_slippage_bps |-> UnwrapOr(req.max_slippage_bps, 100),
                             rebalance_threshold_pct |-> 500])]

\* str::to_lowercase on the strategy strings tried
ToLowercase(s) ==
    CASE s = "Arbitrage" -> "arbitrage"
      [] s = "DCA" -> "dca"
      [] s = "GridTrading" -> "gridtrading"
      [] s = "Grid_Trading" -> "grid_trading"
      [] s = "MeanReversion" -> "meanreversion"
      [] s = "TrendFollowing" -> "trendfollowing"
      [] s = "Momentum" -> "momentum"
      [] OTHER -> s

\* routes/icm.rs 661-668: the tag start_trading takes for a strategy string
StartTradingStrategyType(strategy) ==
    LET s == ToLowercase(strategy) IN
    CASE s = "arbitrage" -> "Arbitrage"
      [] s \in {"gridtrading", "grid_trading"} -> "GridTrading"
      [] s = "dca" -> "DCA"
      [] s \in {"meanreversion", "mean_reversion"} -> "MeanReversion"
      [] s \in {"trendfollowing", "trend_following"} -> "TrendFollowing"
      [] OTHER -> "DCA"

\* routes/icm.rs 669-678: the config start_trading builds around the tag
StartTradingConfig(strategy) ==
    [strategy_type |-> StartTradingStrategyType(strategy),
     min_spread_bps |-> 10, max_slippage_bps |-> 50,
     rebalance_threshold_pct |-> 50000]

\* trading_agent.rs 519-541: TradingAgentConfigBuilder::build
BuildConfig(has_api_key, token_pairs_len, configs) ==
    IF ~has_api_key THEN "Configuration"
    ELSE IF token_pairs_len = 0 THEN "Configuration"
    ELSE IF configs = <<>> THEN "Configuration"
    ELSE "Ok"

\* trading_agent.rs 54-119: TradingAgent::new keeps the configs as they come
\* (Planner::new, planner.rs 37-43, makes a strategy for each) and returns Ok.
NewTradingAgent(configs) ==
    [strategy_configs |-> configs, state_strategy_config |-> configs[1]]

Response(route, request, status, created) ==
    [route |-> route, request |-> request, status |-> status, created |-> created]

\* the server with no agent, before any request
RoutesNew ==
    /\ trading_agent = None
    /\ response = None

\* The strategy requests tried: every known tag and two unknown ones with the
\* default parameters, and Arbitrage at and past each of its two limits.
StrategyRequests ==
    [strategy_type : StrategyTypes \cup {"arbitrage", "Momentum"},
     min_spread_bps : {None}, max_slippage_bps : {None}]
    \cup [strategy_type : {"Arbitrage"}, min_spread_bps : {Some(9), Some(10)},
          max_slippage_bps : {None}]
    \cup [strategy_type : {"Arbitrage"}, min_spread_bps : {None},
          max_slippage_bps : {Some(500), Some(501)}]

\* The requests to start an agent: at most one strategy, with and without a
\* token pair.
StartAgentRequests ==
    [token_pairs_len : {0, 1},
     strategies : {<<>>} \cup {<<req>> : req \in StrategyRequests}]

\* routes/agent.rs 97-146: start_agent
StartAgent ==
    /\ \E request \in StartAgentRequests :
         LET converted == [i \in 1..Len(request.strategies) |->
                              ConvertStrategyRequest(request.strategies[i])]
             configs == [i \in 1..Len(converted) |-> converted[i].config[1]]
         IN  IF \E i \in 1..Len(converted) : ~converted[i].ok
               THEN /\ response' = Response("start_agent", request, "BAD_REQUEST",
                                            None)
                    /\ UNCHANGED trading_agent
             ELSE IF BuildConfig(TRUE, request.token_pairs_len, configs) # "Ok"
               THEN /\ response' = Response("start_agent", request, "BAD_REQUEST",
                                            None)
                    /\ UNCHANGED trading_agent
             ELSE /\ response' = Response("start_agent", request, "OK",
                                          Some(NewTradingAgent(configs)))
                  /\ trading_agent' = Some(NewTradingAgent(configs))
    /\ UNCHANGED <<execVars, agentVars, learnVars, fetchVars, planVars, runVars>>
    /\ UNCHANGED <<strategies, strategy_configs, market_conditions, planner_tick,
                   eval_ticks, quotes_sent, lockVars>>
    /\ UNCHANGED <<strategyVars, observerVars>>

\* routes/agent.rs 193-218: update_strategy, with TradingAgent's
\* update_strategy_config (trading_agent.rs 353-368), which validates, writes
\* the agent state and asks the planner, which validates and changes nothing
\* (planner.rs 127-135)
UpdateStrategy ==
    /\ \E request \in StrategyRequests :
         LET converted == ConvertStrategyRequest(request) IN
         IF ~converted.ok
           THEN /\ response' = Response("update_strategy", request, "BAD_REQUEST",
                                        None)
                /\ UNCHANGED trading_agent
         ELSE IF trading_agent = None
           THEN /\ response' = Response("update_strategy", request, "NOT_FOUND",
                                        None)
                /\ UNCHANGED trading_agent
         ELSE IF ValidateStrategyConfig(converted.config[1]) # "Ok"
           THEN /\ response' = Response("update_strategy", request,
                                        "INTERNAL_SERVER_ERROR", None)
                /\ UNCHANGED trading_agent
         ELSE /\ response' = Response("update_strategy", request, "OK", None)
              /\ trading_agent' =
                   Some([trading_agent[1] EXCEPT
                            !.state_strategy_config = converted.config[1]])
    /\ UNCHANGED <<execVars, agentVars, learnVars, fetchVars, planVars, runVars>>
    /\ UNCHANGED <<strategies, strategy_configs, market_conditions, planner_tick,
                   eval_ticks, quotes_sent, lockVars>>
    /\ UNCHANGED <<strategyVars, observerVars>>

\* The requests to start trading on a pool: the strategy string and the
\* number of tokens in the bucket (their ordered pairs are the token pairs).
StartTradingRequests ==
    [strategy : {"Arbitrage", "arbitrage", "DCA", "GridTrading", "Grid_Trading",
                 "grid_trading", "MeanReversion", "trend_following", "Momentum",
                 ""},
     token_bucket_len : {1, 2}]

\* routes/icm.rs 649-738: start_trading from the token pairs on. A failed
\* transaction answers with the error before any agent is made; otherwise the
\* agent is made in a spawned task from the built config and dropped there,
\* and the answer is the transaction whatever became of the agent.
StartTrading ==
    /\ \E request \in StartTradingRequests, tx_ok \in BOOLEAN :
         LET token_pairs_len == request.token_bucket_len
                                    * (request.token_bucket_len - 1)
             configs == <<StartTradingConfig(request.strategy)>>
         IN  IF ~tx_ok
               THEN response' = Response("start_trading", request, "error", None)
             ELSE IF BuildConfig(TRUE, token_pairs_len, configs) # "Ok"
               THEN response' = Response("start_trading", request, "success", None)
             ELSE response' = Response("start_trading", request, "success",
                                       Some(NewTradingAgent(configs)))
    /\ UNCHANGED trading_agent
    /\ UNCHANGED <<execVars, agentVars, learnVars, fetchVars, planVars, runVars>>
    /\ UNCHANGED <<strategies, strategy_configs, market_conditions, planner_tick,
                   eval_ticks, quotes_sent, lockVars>>
    /\ UNCHANGED <<strategyVars, observerVars>>

\* ------------------------------------------------------------------ observer
MaxResults == 2          \* results the observer processes

\* The results a long-running observer has processed before the ones followed
\* here: HistoryStart failed results of 1500 ms each, all still in the history.
HistoryStart == 9999

LongRunResult(i) ==
    [plan_id |-> i, success |-> FALSE, execution_time_ms |-> 1500,
     actual_slippage_bps |-> None, timestamp |-> 0]

\* observer.rs 103-128: Observer::new, with default_performance_metrics
\* (539-551). win_rate is in thousandths, avg_slippage_bps in 1/Scale.
ObserverNew ==
    /\ execution_history = <<>>
    /\ performance_metrics = [total_trades |-> 0, successful_trades |-> 0,
                              win_rate |-> 0, avg_execution_time_ms |-> 0,
                              avg_slippage_bps |-> 0]
    /\ active_positions = {}
    /\ processed = None

PushHistory_DrainAtCap(history, result) ==
    LET h == Append(history, result) IN
    IF Len(h) >= 10000 THEN SubSeq(h, 1001, Len(h)) ELSE h

\* observer.rs 187-193: the result is pushed and, past 10000 entries, the
\* oldest 1000 are drained.
PushHistory(history, result) ==
    LET h == Append(history, result) IN
    IF Len(h) > 10000 THEN SubSeq(h, 1001, Len(h)) ELSE h

UpdatePerformanceMetrics_CountAll(perf, result) ==
    LET total == perf.total_trades + 1
        successful == perf.successful_trades + 1
    IN  [total_trades |-> total,
         successful_trades |-> successful,
         win_rate |-> (successful * Milli) \div total,
         avg_execution_time_ms |->
            IF total = 1 THEN result.execution_time_ms
            ELSE (perf.avg_execution_time_ms * (total - 1)
                    + result.execution_time_ms) \div total,
         avg_slippage_bps |->
            IF IsSome(result.actual_slippage_bps)
              THEN (perf.avg_slippage_bps * (total - 1)
                      + result.actual_slippage_bps[1] * Scale) \div total
              ELSE perf.avg_slippage_bps]

\* observer.rs 215-245
UpdatePerformanceMetrics(perf, result) ==
    LET total == perf.total_trades + 1
        successful == perf.successful_trades + (IF result.success THEN 1 ELSE 0)
    IN  [total_trades |-> total,
         successful_trades |-> successful,
         win_rate |-> (successful * Milli) \div total,
         avg_execution_time_ms |->
            IF total = 1 THEN result.execution_time_ms
            ELSE (perf.avg_execution_time_ms * (total - 1)
                    + result.execution_time_ms) \div total,
         avg_slippage_bps |->
            IF IsSome(result.actual_slippage_bps)
              THEN (perf.avg_slippage_bps * (total - 1)
                      + result.actual_slippage_bps[1] * Scale) \div total
              ELSE perf.avg_slippage_bps]

\* observer.rs 254-273: a successful result adds a position under the key
\* "{plan_id}_{timestamp}".
UpdatePositionTracking(positions, result) ==
    IF result.success
      THEN positions \cup {<<result.plan_id, result.timestamp>>}
      ELSE positions

\* observer.rs 307-313, in tenths
TimeScore(execution_time_ms) ==
    IF execution_time_ms < 2000 THEN 10
    ELSE IF execution_time_ms < 5000 THEN 7 ELSE 3

SlippageScore_UnknownIsLow(actual_slippage_bps) ==
    IF IsSome(actual_slippage_bps)
      THEN IF actual_slippage_bps[1] < 50 THEN 10
           ELSE IF actual_slippage_bps[1] < 100 THEN 7 ELSE 3
      ELSE 10

\* observer.rs 315-325, in tenths
SlippageScore(actual_slippage_bps) ==
    IF IsSome(actual_slippage_bps)
      THEN IF actual_slippage_bps[1] < 50 THEN 10
           ELSE IF actual_slippage_bps[1] < 100 THEN 7 ELSE 3
      ELSE 5

\* observer.rs 301-335: combined_score = (quality_score + slippage_score) / 2,
\* compared here as twice its value in tenths
AssessExecutionQuality(result) ==
    IF ~result.success THEN "Poor"
    ELSE LET twice == TimeScore(result.execution_time_ms)
                        + SlippageScore(result.actual_slippage_bps)
         IN  IF twice >= 16 THEN "Excellent"
             ELSE IF twice >= 12 THEN "Good"
             ELSE IF twice >= 8 THEN "Fair"
             ELSE "Poor"

\* The results tried: every pairing of the execution times and slippages
\* around the thresholds for a successful result, and two failed ones.
ExecutionTimes == {900, 1500, 2000, 2500, 5000, 6000}
Slippages == {None, Some(20), Some(50), Some(80), Some(100), Some(200)}

ExecutionResults ==
    [success : {TRUE}, execution_time_ms : ExecutionTimes,
     actual_slippage_bps : Slippages]
    \cup [success : {FALSE}, execution_time_ms : {1500},
          actual_slippage_bps : {None, Some(20)}]

\* The tags of the plans whose results reach the observer.
ExecutedPlanTags == {"Arbitrage", "DCA"}

\* observer.rs 288: the strategy_type generate_learning_feedback gives the
\* feedback of a result; an ExecutionResult (executor.rs 35-45) names its
\* plan by id only.
FeedbackStrategyType(result) == "Arbitrage"

\* observer.rs 180-212: process_execution_result, with
\* generate_learning_feedback (277-298); both sends are logged when they fail.
\* plan_tag is the tag of the plan the result comes from.
ProcessExecutionResult ==
    /\ \/ performance_metrics.total_trades < MaxResults
       \/ /\ performance_metrics.total_trades >= HistoryStart
          /\ performance_metrics.total_trades < HistoryStart + MaxResults
    /\ \E r \in ExecutionResults, plan_tag \in ExecutedPlanTags :
         LET result == [plan_id |-> performance_metrics.total_trades + 1,
                        success |-> r.success,
                        execution_time_ms |-> r.execution_time_ms,
                        actual_slippage_bps |-> r.actual_slippage_bps,
                        timestamp |-> now]
             execution_quality == AssessExecutionQuality(result)
             suggested_adjustments == QualityAdjustments(execution_quality)
             positions == UpdatePositionTracking(active_positions, result)
         IN  /\ execution_history' = PushHistory(execution_history, result)
             /\ performance_metrics' =
                    UpdatePerformanceMetrics(performance_metrics, result)
             /\ active_positions' = positions
             /\ processed' = Some([result |-> result,
                                   plan_strategy_type |-> plan_tag,
                                   strategy_type |-> FeedbackStrategyType(result),
                                   quality |-> execution_quality,
                                   suggested_adjustments |-> suggested_adjustments])
             /\ chan' = SendOn(SendOn(chan, "feedback", suggested_adjustments),
                               "position", positions)
    /\ UNCHANGED <<learning_enabled, agent_pc, agent_is_running,
                   agent_state_is_active, learning_pc>>
    /\ UNCHANGED <<execVars, learnVars, fetchVars, planVars, runVars,
                   strategyVars, evalVars, lockVars>>

\* --------------------------------------------------------------------- locks
\* tokio::sync::RwLock (trading_agent.rs 6, planner.rs 5) hands the lock out
\* in the order of the requests: a read is granted while no writer holds the
\* lock and no earlier request still waits, a write once nobody holds it.  A
\* task that holds a read guard and asks for another one therefore waits
\* behind a writer that asked in between.
Locks == {"is_running", "agent_state", "market_conditions", "current_positions"}
Calls == {"stop", "get_stats", "tick", "update_positions"}

Lock(l, m) == [op |-> "acquire", lock |-> l, mode |-> m]
Drop(l, m) == [op |-> "release", lock |-> l, mode |-> m]
Effect(what) == [op |-> what, lock |-> "none", mode |-> "none"]

\* trading_agent.rs 219-232: the write guard of is_running lives to the end
\* of stop, the one of agent_state to the end of the inner block.
StopSteps ==
    << Lock("is_running", "write"), Effect("set_is_running"),
       Lock("agent_state", "write"), Effect("set_is_active"),
       Drop("agent_state", "write"), Drop("is_running", "write") >>

\* trading_agent.rs 330-345: state is read-locked first and kept; is_running
\* is read-locked while the AgentStats value is built.
GetStatsSteps ==
    << Lock("agent_state", "read"), Lock("is_running", "read"),
       Effect("component_stats"),
       Drop("is_running", "read"), Drop("agent_state", "read") >>

\* planner.rs 168-195 and 198-204 (258-260 on the standard path): both read
\* guards of perform_comprehensive_evaluation are alive across the advisor
\* call and across the call of the evaluation, which locks both again.
EvaluationSteps ==
    << Lock("market_conditions", "read"), Lock("current_positions", "read"),
       Effect("analyze_trading_opportunity"),
       Lock("market_conditions", "read"), Lock("current_positions", "read"),
       Effect("evaluate"),
       Drop("current_positions", "read"), Drop("market_conditions", "read"),
       Drop("current_positions", "read"), Drop("market_conditions", "read") >>

\* planner.rs 120-124
UpdatePositionsSteps ==
    << Lock("current_positions", "write"), Effect("set_positions"),
       Drop("current_positions", "write") >>

StepsOf(c) ==
    CASE c = "stop"             -> StopSteps
      [] c = "get_stats"        -> GetStatsSteps
      [] c = "tick"             -> EvaluationSteps
      [] c = "update_positions" -> UpdatePositionsSteps

\* The positions maps handed to Planner::update_positions, by their keys.
PositionMaps == {{}, {<<1, 0>>}}

Unlocked == [readers |-> [c \in Calls |-> 0], writer |-> None, queue |-> <<>>]

\* no call in progress, every lock free, the planner's positions map as
\* Planner::new (planner.rs 50) leaves it
LocksNew ==
    /\ rwlock = [l \in Locks |-> Unlocked]
    /\ call_pc = [c \in Calls |-> [at |-> 0, waiting |-> FALSE]]
    /\ planner_positions = {}

Finished(c) == call_pc[c].at = Len(StepsOf(c))
NextStep(c) == StepsOf(c)[call_pc[c].at + 1]
Advance(c) == [call_pc EXCEPT ![c] = [at |-> @.at + 1, waiting |-> FALSE]]

HeldBy(l) ==
    {c \in Calls : rwlock[l].readers[c] > 0 \/ rwlock[l].writer = Some(c)}

\* what the lock grants to the request at the head of its queue
Grantable(l, m) ==
    IF m = "read" THEN rwlock[l].writer = None ELSE HeldBy(l) = {}

\* lock.read() / lock.write() is polled for the first time: the request joins
\* the queue of the lock.
LockRequest(c) ==
    /\ ~Finished(c)
    /\ ~call_pc[c].waiting
    /\ NextStep(c).op = "acquire"
    /\ rwlock' = [rwlock EXCEPT ![NextStep(c).lock].queue = Append(@, c)]
    /\ call_pc' = [call_pc EXCEPT ![c].waiting = TRUE]
    /\ UNCHANGED <<execVars, agentVars, learnVars, fetchVars, planVars, runVars,
                   strategyVars, observerVars, evalVars, planner_positions>>

\* the request at the head of the queue gets its guard
LockGrant(c) ==
    /\ call_pc[c].waiting
    /\ LET l == NextStep(c).lock
           m == NextStep(c).mode IN
         /\ Head(rwlock[l].queue) = c
         /\ Grantable(l, m)
         /\ rwlock' = [rwlock EXCEPT
                         ![l].queue = Tail(@),
                         ![l].readers[c] = IF m = "read" THEN @ + 1 ELSE @,
                         ![l].writer = IF m = "write" THEN Some(c) ELSE @]
    /\ call_pc' = Advance(c)
    /\ UNCHANGED <<execVars, agentVars, learnVars, fetchVars, planVars, runVars,
                   strategyVars, observerVars, evalVars, planner_positions>>

\* a guard is dropped
LockRelease(c) ==
    /\ ~Finished(c)
    /\ NextStep(c).op = "release"
    /\ LET l == NextStep(c).lock
           m == NextStep(c).mode IN
         rwlock' = [rwlock EXCEPT
                      ![l].readers[c] = IF m = "read" THEN @ - 1 ELSE @,
                      ![l].writer = IF m = "write" THEN None ELSE @]
    /\ call_pc' = Advance(c)
    /\ UNCHANGED <<execVars, agentVars, learnVars, fetchVars, planVars, runVars,
                   strategyVars, observerVars, evalVars, planner_positions>>

\* what a call does between its lock operations
CallStep(c) ==
    /\ ~Finished(c)
    /\ NextStep(c).op \notin {"acquire", "release"}
    /\ agent_is_running' =
         IF NextStep(c).op = "set_is_running" THEN FALSE ELSE agent_is_running
    /\ agent_state_is_active' =
         IF NextStep(c).op = "set_is_active" THEN FALSE
         ELSE agent_state_is_active
    /\ IF NextStep(c).op = "set_positions"
         THEN \E positions \in PositionMaps : planner_positions' = positions
         ELSE UNCHANGED planner_positions
    /\ call_pc' = Advance(c)
    /\ UNCHANGED <<learning_enabled, agent_pc, chan, learning_pc, rwlock>>
    /\ UNCHANGED <<execVars, learnVars, fetchVars, planVars, runVars,
                   strategyVars, observerVars, evalVars>>

\* the call has returned; it may be made again
CallReturn(c) ==
    /\ Finished(c)
    /\ call_pc' = [call_pc EXCEPT ![c] = [at |-> 0, waiting |-> FALSE]]
    /\ UNCHANGED <<execVars, agentVars, learnVars, fetchVars, planVars, runVars,
                   strategyVars, observerVars, evalVars, rwlock,
                   planner_positions>>

\* ------------------------------------------------------------ specifications
\* The executor on its own, as Executor::new leaves it; the agent around it is
\* constructed and never started.
Upstreams ==
    {SUBSET (1..NumPairs)} \cup {{ok} : ok \in SUBSET (1..NumPairs)}

Init ==
    /\ \E cap \in 1..MaxConcurrent : ExecInit(cap)
    /\ AgentNew(TRUE, DefaultConfig)
    /\ upstream = SUBSET (1..NumPairs)
    /\ failure_modes = StatusFailureModes
    /\ StrategyNew /\ interval_hours = 24
    /\ ObserverNew
    /\ PlannerNew(<<"Arbitrage">>, DefaultStrategyConfig)
    /\ RoutesNew
    /\ LocksNew

Next ==
    \/ StartWithReceiver
    \/ ExecutorStart
    \/ ExecLoopTop
    \/ ExecLoopRecv
    \/ ExecLoopRecvClosed
    \/ ExecutorStop
    \/ SendPlan
    \/ Tick
    \/ \E p \in PlanIds : TaskStep(p)

Spec == Init /\ [][Next]_vars

\* The agent: TradingAgent::new, then start, stop and the stage tasks start
\* spawns.
AgentInit ==
    /\ ExecInit(MaxConcurrent)
    /\ \E learning \in BOOLEAN : AgentNew(learning, DefaultConfig)
    /\ upstream \in Upstreams
    /\ failure_modes = StatusFailureModes
    /\ StrategyNew /\ interval_hours = 24
    /\ ObserverNew
    /\ PlannerNew(<<"Arbitrage">>, DefaultStrategyConfig)
    /\ RoutesNew
    /\ LocksNew

AgentNext ==
    \/ AgentStart
    \/ AgentStop
    \/ AgentCleanup
    \/ AgentStartDropped
    \/ \E r \in Runs : FetcherStart(r)
    \/ \E r \in Runs : FetcherLoopTop(r)
    \/ \E r \in Runs : FetcherTick(r)
    \/ \E r \in Runs : PlannerStart(r)
    \/ \E r \in Runs : PlannerLoopTop(r)
    \/ \E r \in Runs : PlannerTick(r)
    \/ \E r \in Runs : LearningStart(r)
    \/ \E r \in Runs : LearningLoopTop(r)

AgentSpec == AgentInit /\ [][AgentNext]_vars

\* The learning loop of a started agent with learning enabled, fed by an
\* observer, from any starting configuration.
StartConfigs ==
    [priority_fee_percentile : {0, 75, 255},
     max_slippage_bps : {0, 100, 65535},
     position_size_usd : {50 * Scale, 1000 * Scale, 20000 * Scale}]

LearningInit ==
    /\ ExecInit(MaxConcurrent)
    /\ \E cfg \in StartConfigs :
         /\ learning_enabled = TRUE
         /\ agent_pc = "waiting"
         /\ agent_is_running = TRUE
         /\ agent_state_is_active = TRUE
         /\ chan = [c \in Channels |->
                      CASE c = "quote"       -> Endpoint("fetcher", "dropped")
                        [] c = "plan"        -> Endpoint("planner", "dropped")
                        [] c = "exec_own"    -> Endpoint("dropped", "executor")
                        [] c = "result"      -> Endpoint("executor", "dropped")
                        [] c = "exec_spare"  -> Endpoint("dropped", "dropped")
                        [] c = "obs_exec"    -> Endpoint("dropped", "dropped")
                        [] c = "feedback"    -> Endpoint("observer", "learning_loop")
                        [] c = "position"    -> Endpoint("observer", "learning_loop")
                        [] c = "dummy_quote" -> Endpoint("dropped", "planner_loop")]
         /\ learning_pc = [r \in Runs |-> IF r = 1 THEN "spawned" ELSE "none"]
         /\ strategy_config = cfg
         /\ config_position_size_usd = cfg.position_size_usd
         /\ current_positions = {}
         /\ written = {}
         /\ feedbacks_sent = 0
         /\ fetcher_is_running = FALSE
         /\ fetcher_pc = [r \in Runs |-> IF r = 1 THEN "spawned" ELSE "none"]
         /\ fetch_ticks = 0
         /\ quote_cache = <<>>
         /\ published = <<>>
         /\ first_tick = [r \in Runs |-> None]
         /\ tick_outcome = None
         /\ planner_is_active = FALSE
         /\ planner_pc = [r \in Runs |-> IF r = 1 THEN "spawned" ELSE "none"]
         /\ recent_quotes = <<>>
         /\ emitted_plans = <<>>
         /\ starts = 1
         /\ upstream = SUBSET (1..NumPairs)
         /\ failure_modes = StatusFailureModes
    /\ StrategyNew /\ interval_hours = 24
    /\ ObserverNew
    /\ PlannerNew(<<"Arbitrage">>, DefaultStrategyConfig)
    /\ RoutesNew
    /\ LocksNew

LearningNext ==
    \/ ObserverEmit
    \/ \E r \in Runs : LearningStart(r)
    \/ \E r \in Runs : LearningLoopTop(r)
    \/ \E r \in Runs : LearningRecvFeedback(r)
    \/ \E r \in Runs : LearningRecvPositions(r)
    \/ AgentStop

LearningSpec == LearningInit /\ [][LearningNext]_vars

\* The strategies on their own: calls of evaluate on an ArbitrageStrategy and
\* on a DCAStrategy as the clock advances.
StrategyInit ==
    /\ ExecInit(MaxConcurrent)
    /\ AgentNew(TRUE, DefaultConfig)
    /\ upstream = SUBSET (1..NumPairs)
    /\ failure_modes = StatusFailureModes
    /\ StrategyNew
    /\ ObserverNew
    /\ PlannerNew(<<"Arbitrage">>, DefaultStrategyConfig)
    /\ RoutesNew
    /\ LocksNew

StrategyNext ==
    \/ EvaluateArbitrage
    \/ EvaluateDca
    \/ AdvanceClock

StrategySpec == StrategyInit /\ [][StrategyNext]_vars

\* The observer on its own: results handed to process_execution_result.
ObserverInit ==
    /\ ExecInit(MaxConcurrent)
    /\ AgentNew(TRUE, DefaultConfig)
    /\ upstream = SUBSET (1..NumPairs)
    /\ failure_modes = StatusFailureModes
    /\ StrategyNew /\ interval_hours = 24
    /\ ObserverNew
    /\ PlannerNew(<<"Arbitrage">>, DefaultStrategyConfig)
    /\ RoutesNew
    /\ LocksNew

ObserverNext == ProcessExecutionResult

ObserverSpec == ObserverInit /\ [][ObserverNext]_vars

\* The observer after HistoryStart results (observer.rs 180-212 run
\* HistoryStart times on LongRunResult): every result is in the history, the
\* metrics are those of HistoryStart failures, no position was added. The
\* learning loop has returned and dropped its receivers (trading_agent.rs
\* 246-261), so the feedback and position sends fail and are logged.
HistoryInit ==
    /\ PlannerNew(<<"Arbitrage">>, DefaultStrategyConfig)
    /\ RoutesNew
    /\ LocksNew
    /\ ExecInit(MaxConcurrent)
    /\ learning_enabled = TRUE
    /\ agent_pc = "returned"
    /\ agent_is_running = FALSE
    /\ agent_state_is_active = FALSE
    /\ chan = [c \in Channels |->
                 CASE c = "quote"       -> Endpoint("fetcher", "dropped")
                   [] c = "plan"        -> Endpoint("planner", "dropped")
                   [] c = "exec_own"    -> Endpoint("dropped", "executor")
                   [] c = "result"      -> Endpoint("executor", "dropped")
                   [] c = "exec_spare"  -> Endpoint("dropped", "dropped")
                   [] c = "obs_exec"    -> Endpoint("dropped", "dropped")
                   [] c = "feedback"    -> Endpoint("observer", "dropped")
                   [] c = "position"    -> Endpoint("observer", "dropped")
                   [] c = "dummy_quote" -> Endpoint("dropped", "dropped")]
    /\ learning_pc = [r \in Runs |-> IF r = 1 THEN "returned" ELSE "none"]
    /\ strategy_config = DefaultConfig
    /\ config_position_size_usd = DefaultConfig.position_size_usd
    /\ current_positions = {}
    /\ written = {}
    /\ feedbacks_sent = 0
    /\ fetcher_is_running = FALSE
    /\ fetcher_pc = [r \in Runs |-> IF r = 1 THEN "returned" ELSE "none"]
    /\ fetch_ticks = 0
    /\ quote_cache = <<>>
    /\ published = <<>>
    /\ first_tick = [r \in Runs |-> None]
    /\ tick_outcome = None
    /\ planner_is_active = FALSE
    /\ planner_pc = [r \in Runs |-> IF r = 1 THEN "returned" ELSE "none"]
    /\ recent_quotes = <<>>
    /\ emitted_plans = <<>>
    /\ starts = 1
    /\ upstream = SUBSET (1..NumPairs)
    /\ failure_modes = StatusFailureModes
    /\ StrategyNew /\ interval_hours = 24
    /\ execution_history = [i \in 1..HistoryStart |-> LongRunResult(i)]
    /\ performance_metrics = [total_trades |-> HistoryStart, successful_trades |-> 0,
                              win_rate |-> 0, avg_execution_time_ms |-> 1500,
                              avg_slippage_bps |-> 0]
    /\ active_positions = {}
    /\ processed = Some([result |-> LongRunResult(HistoryStart),
                         plan_strategy_type |-> "Arbitrage",
                         strategy_type |-> "Arbitrage",
                         quality |-> "Poor",
                         suggested_adjustments |-> QualityAdjustments("Poor")])

HistorySpec == HistoryInit /\ [][ObserverNext]_vars

\* The fetcher on its own: DataFetcher::new (data_fetcher.rs 29-51) called by
\* a caller that keeps the quote receiver, and start called once; the APIs can
\* fail in every way, the caller can call stop and can drop the receiver.
FetcherInit ==
    /\ ExecInit(MaxConcurrent)
    /\ learning_enabled = TRUE
    /\ agent_pc = "created"
    /\ agent_is_running = FALSE
    /\ agent_state_is_active = FALSE
    /\ chan = [c \in Channels |->
                 CASE c = "quote"       -> Endpoint("fetcher", "caller")
                   [] c = "plan"        -> Endpoint("planner", "dropped")
                   [] c = "exec_own"    -> Endpoint("dropped", "executor")
                   [] c = "result"      -> Endpoint("executor", "dropped")
                   [] c = "exec_spare"  -> Endpoint("dropped", "dropped")
                   [] c = "obs_exec"    -> Endpoint("dropped", "dropped")
                   [] c = "feedback"    -> Endpoint("observer", "agent")
                   [] c = "position"    -> Endpoint("observer", "agent")
                   [] c = "dummy_quote" -> Endpoint("none", "none")]
    /\ learning_pc = [r \in Runs |-> "none"]
    /\ strategy_config = DefaultConfig
    /\ config_position_size_usd = DefaultConfig.position_size_usd
    /\ current_positions = {}
    /\ written = {}
    /\ feedbacks_sent = 0
    /\ fetcher_is_running = FALSE
    /\ fetcher_pc = [r \in Runs |-> IF r = 1 THEN "spawned" ELSE "none"]
    /\ fetch_ticks = 0
    /\ quote_cache = <<>>
    /\ published = <<>>
    /\ first_tick = [r \in Runs |-> None]
    /\ tick_outcome = None
    /\ planner_is_active = FALSE
    /\ planner_pc = [r \in Runs |-> "none"]
    /\ recent_quotes = <<>>
    /\ emitted_plans = <<>>
    /\ starts = 1
    /\ upstream = SUBSET (1..NumPairs)
    /\ failure_modes = AllFailureModes
    /\ StrategyNew /\ interval_hours = 24
    /\ ObserverNew
    /\ PlannerNew(<<"Arbitrage">>, DefaultStrategyConfig)
    /\ RoutesNew
    /\ LocksNew

FetcherNext ==
    \/ \E r \in Runs : FetcherStart(r)
    \/ \E r \in Runs : FetcherLoopTop(r)
    \/ \E r \in Runs : FetcherTick(r)
    \/ FetcherStop
    \/ DropQuoteReceiver

FetcherSpec == FetcherInit /\ [][FetcherNext]_vars

\* The sets of tags a planner is made with, and the configs its strategies
\* share: the fee of 5 lamports is below the least the jitter can divide.
PlannerKeySets ==
    {{"Arbitrage", "DCA"}, {"GridTrading", "DCA", "TrendFollowing"}}

PlannerConfigs ==
    [min_spread_bps : {500}, max_slippage_bps : {100},
     max_priority_fee_lamports : {5, 10}, max_position_size_usd : {10000}]

KeyOrders(S) ==
    {f \in [1..Cardinality(S) -> S] : \A i, j \in 1..Cardinality(S) :
                                         f[i] = f[j] => i = j}

\* A planner on its own: Planner::new with one of the sets of tags in any
\* map order, its start spawned on a live quote channel, and the receiver of
\* the plan channel with the caller.
PlannerInit ==
    /\ ExecInit(MaxConcurrent)
    /\ learning_enabled = TRUE
    /\ agent_pc = "created"
    /\ agent_is_running = FALSE
    /\ agent_state_is_active = FALSE
    /\ chan = [c \in Channels |->
                 CASE c = "quote"       -> Endpoint("caller", "planner_loop")
                   [] c = "plan"        -> Endpoint("planner", "caller")
                   [] c = "exec_own"    -> Endpoint("dropped", "executor")
                   [] c = "result"      -> Endpoint("executor", "dropped")
                   [] c = "exec_spare"  -> Endpoint("dropped", "dropped")
                   [] c = "obs_exec"    -> Endpoint("dropped", "dropped")
                   [] c = "feedback"    -> Endpoint("observer", "agent")
                   [] c = "position"    -> Endpoint("observer", "agent")
                   [] c = "dummy_quote" -> Endpoint("none", "none")]
    /\ learning_pc = [r \in Runs |-> "none"]
    /\ strategy_config = DefaultConfig
    /\ config_position_size_usd = DefaultConfig.position_size_usd
    /\ current_positions = {}
    /\ written = {}
    /\ feedbacks_sent = 0
    /\ fetcher_is_running = FALSE
    /\ fetcher_pc = [r \in Runs |-> "none"]
    /\ fetch_ticks = 0
    /\ quote_cache = <<>>
    /\ published = <<>>
    /\ first_tick = [r \in Runs |-> None]
    /\ tick_outcome = None
    /\ planner_is_active = FALSE
    /\ planner_pc = [r \in Runs |-> IF r = 1 THEN "spawned" ELSE "none"]
    /\ recent_quotes = <<>>
    /\ emitted_plans = <<>>
    /\ starts = 1
    /\ upstream = {1..NumPairs}
    /\ failure_modes = StatusFailureModes
    /\ StrategyNew /\ interval_hours = 24
    /\ ObserverNew
    /\ \E keys \in UNION {KeyOrders(S) : S \in PlannerKeySets},
          config \in PlannerConfigs : PlannerNew(keys, config)
    /\ RoutesNew
    /\ LocksNew

PlannerNext ==
    \/ \E r \in Runs : PlannerStart(r)
    \/ \E r \in Runs : PlannerLoopTop(r)
    \/ \E r \in Runs : PlannerRecvQuote(r)
    \/ \E r \in Runs : PlannerTick(r)
    \/ PlannerStop
    \/ SendQuote
    \/ DropPlanReceiver

PlannerSpec == PlannerInit /\ [][PlannerNext]_vars

\* The routes on their own: the server as it starts, with no agent.
RoutesInit ==
    /\ ExecInit(MaxConcurrent)
    /\ AgentNew(TRUE, DefaultConfig)
    /\ upstream = SUBSET (1..NumPairs)
    /\ failure_modes = StatusFailureModes
    /\ StrategyNew /\ interval_hours = 24
    /\ ObserverNew
    /\ PlannerNew(<<"Arbitrage">>, DefaultStrategyConfig)
    /\ RoutesNew
    /\ LocksNew

RoutesNext ==
    \/ StartAgent
    \/ UpdateStrategy
    \/ StartTrading

RoutesSpec == RoutesInit /\ [][RoutesNext]_vars

\* The tokio runtime keeps polling every spawned task that can make progress.
FairSpec == Spec /\ \A p \in PlanIds : WF_vars(TaskStep(p))

\* The agent under the same scheduling: every spawned stage task that can
\* take a step is polled, and the wait loop of start wakes up every second
\* (trading_agent.rs 204-206). Calls of start and stop and the drop of the
\* future of start are the caller's and may never come.
FairAgentSpec ==
    /\ AgentSpec
    /\ WF_vars(AgentCleanup)
    /\ \A r \in Runs :
          /\ WF_vars(FetcherStart(r)) /\ WF_vars(FetcherLoopTop(r))
          /\ WF_vars(FetcherTick(r))
          /\ WF_vars(PlannerStart(r)) /\ WF_vars(PlannerLoopTop(r))
          /\ WF_vars(PlannerTick(r))
          /\ WF_vars(LearningStart(r)) /\ WF_vars(LearningLoopTop(r))

\* The calls that take the agent's and the planner's locks, on a started
\* agent: TradingAgent::stop next to TradingAgent::get_stats, and the
\* planner's evaluation tick next to Planner::update_positions.
LockInit ==
    /\ ExecInit(MaxConcurrent)
    /\ learning_enabled = TRUE
    /\ agent_pc = "waiting"
    /\ agent_is_running = TRUE
    /\ agent_state_is_active = TRUE
    /\ chan = [c \in Channels |->
                 CASE c = "quote"       -> Endpoint("fetcher", "dropped")
                   [] c = "plan"        -> Endpoint("planner", "dropped")
                   [] c = "exec_own"    -> Endpoint("dropped", "executor")
                   [] c = "result"      -> Endpoint("executor", "dropped")
                   [] c = "exec_spare"  -> Endpoint("dropped", "dropped")
                   [] c = "obs_exec"    -> Endpoint("dropped", "dropped")
                   [] c = "feedback"    -> Endpoint("observer", "learning_loop")
                   [] c = "position"    -> Endpoint("observer", "learning_loop")
                   [] c = "dummy_quote" -> Endpoint("dropped", "planner_loop")]
    /\ learning_pc = [r \in Runs |-> IF r = 1 THEN "spawned" ELSE "none"]
    /\ strategy_config = DefaultConfig
    /\ config_position_size_usd = DefaultConfig.position_size_usd
    /\ current_positions = {}
    /\ written = {}
    /\ feedbacks_sent = 0
    /\ fetcher_is_running = FALSE
    /\ fetcher_pc = [r \in Runs |-> IF r = 1 THEN "spawned" ELSE "none"]
    /\ fetch_ticks = 0
    /\ quote_cache = <<>>
    /\ published = <<>>
    /\ first_tick = [r \in Runs |-> None]
    /\ tick_outcome = None
    /\ planner_is_active = FALSE
    /\ planner_pc = [r \in Runs |-> IF r = 1 THEN "spawned" ELSE "none"]
    /\ recent_quotes = <<>>
    /\ emitted_plans = <<>>
    /\ starts = 1
    /\ upstream = SUBSET (1..NumPairs)
    /\ failure_modes = StatusFailureModes
    /\ StrategyNew /\ interval_hours = 24
    /\ ObserverNew
    /\ PlannerNew(<<"Arbitrage">>, DefaultStrategyConfig)
    /\ RoutesNew
    /\ LocksNew

LockNext ==
    \/ \E c \in Calls : LockRequest(c)
    \/ \E c \in Calls : LockGrant(c)
    \/ \E c \in Calls : LockRelease(c)
    \/ \E c \in Calls : CallStep(c)
    \/ \E c \in Calls : CallReturn(c)

LockSpec == LockInit /\ [][LockNext]_vars

\* The feedback loop of a started agent that is never stopped: the observer
\* emits feedback and positions, the learning loop applies them to the agent
\* state, and the planner task spawned by start keeps ticking.
FeedbackLoopNext ==
    \/ ObserverEmit
    \/ \E r \in Runs : LearningStart(r)
    \/ \E r \in Runs : LearningLoopTop(r)
    \/ \E r \in Runs : LearningRecvFeedback(r)
    \/ \E r \in Runs : LearningRecvPositions(r)
    \/ \E r \in Runs : PlannerStart(r)
    \/ \E r \in Runs : PlannerLoopTop(r)
    \/ \E r \in Runs : PlannerTick(r)

FeedbackLoopSpec == LockInit /\ [][FeedbackLoopNext]_vars

\* Every task of the runtime that can take a step is eventually polled.
FairFeedbackLoopSpec ==
    /\ FeedbackLoopSpec
    /\ \A r \in Runs :
          /\ WF_vars(LearningStart(r)) /\ WF_vars(LearningLoopTop(r))
          /\ WF_vars(LearningRecvFeedback(r))
          /\ WF_vars(LearningRecvPositions(r))
          /\ WF_vars(PlannerStart(r)) /\ WF_vars(PlannerLoopTop(r))
          /\ WF_vars(PlannerTick(r))

\* ------------------------------------------------------------------- claims

ResultsOf(p) == {i \in DOMAIN results : results[i].plan_id = p}
ResultCount(p) == Cardinality(ResultsOf(p))
PlanExpiredResult(p) ==
    [plan_id |-> p, success |-> FALSE, transaction_signature |-> None,
     error_message |-> Some("Plan expired")]

\* C1: at every moment the number of plan tasks that hold an execution
\* permit is at most max_concurrent_executions (and the semaphore accounts
\* for exactly those tasks).
C1_PermitBound ==
    /\ Cardinality(Holders) <= max_concurrent_executions
    /\ available_permits + Cardinality(Holders) = max_concurrent_executions

\* All permits are taken while another pulled plan waits for one.
C1_Witness ==
    /\ Cardinality(Holders) = max_concurrent_executions
    /\ \E p \in PlanIds : task[p].pc = "spawned"

C3_ExpiredNotSubmitted ==
    \A p \in PlanIds :
        task[p].checked = "after" =>
            /\ chain_log[p] = <<>>
            /\ task[p].pc \in {"expired", "done"}
            /\ ResultCount(p) = 1
            /\ \A i \in ResultsOf(p) : results[i] = PlanExpiredResult(p)
            /\ (task[p].pc = "done" => p \notin Holders)
            /\ available_permits + Cardinality(Holders) = max_concurrent_executions

\* An expired plan has run to its end.
C3_Witness ==
    \E p \in PlanIds : task[p].checked = "after" /\ task[p].pc = "done"

\* C4: a plan checked at exactly now = expires_at is treated as expired: it
\* gets the "Plan expired" failure result and is not submitted.
C4_ExpiredAtEquality ==
    \A p \in PlanIds :
        task[p].checked = "at" =>
            /\ chain_log[p] = <<>>
            /\ task[p].pc \in {"expired", "done"}
            /\ \A i \in ResultsOf(p) : results[i] = PlanExpiredResult(p)

\* C5: a transient chain failure is retried, up to MaxAttempts calls in
\* all: a failure result after transient errors only is emitted only when
\* MaxAttempts calls were made (so Timeout, Timeout, Ok ends in success).
C5_TransientRetried ==
    \A p \in PlanIds :
        ( /\ ResultCount(p) >= 1
          /\ chain_log[p] # <<>>
          /\ \A k \in DOMAIN chain_log[p] : chain_log[p][k] \in TransientOutcomes )
        => Len(chain_log[p]) = MaxAttempts

\* C6: every emitted result with success has a signature, and every one
\* without success has a non-empty error message and no signature.
C6_ResultWellFormed ==
    \A i \in DOMAIN results :
        LET r == results[i] IN
        /\ r.success => IsSome(r.transaction_signature)
        /\ ~r.success => /\ IsSome(r.error_message)
                         /\ r.error_message[1] # ""
                         /\ r.transaction_signature = None

\* A success and a chain failure with an empty inner error text have both
\* been reported.
C6_Witness ==
    /\ \E i \in DOMAIN results : results[i].success
    /\ \E p \in PlanIds : chain_log[p] = <<"Rejected">> /\ ResultCount(p) = 1

\* C7: while the agent runs, every plan the planner emits on the plan channel
\* is pulled by the agent's executor, in order, and leads to a result. Stated
\* as what that delivery needs in every state of a running agent: the plan
\* channel's receiver is held by the executor's running loop, and every plan
\* emitted is either waiting on that channel or has been pulled.
C7_PlansReachExecutor ==
    agent_is_running =>
        /\ chan["plan"].rx = "executor"
        /\ exec_pc \in {"loop_top", "recv"}
        /\ Len(chan["plan"].q) + Len(pulled) >= Len(emitted_plans)

\* The i-th quote the fetcher published has been received by the planner.
Received(i) == \E j \in 1..Len(recent_quotes) : recent_quotes[j] = published[i]

\* The i-th quote the fetcher published waits on a channel the planner's loop
\* receives from.
Pending(i) ==
    \E c \in Channels :
        /\ chan[c].rx = "planner_loop"
        /\ \E j \in 1..Len(chan[c].q) : chan[c].q[j] = published[i]

\* The quotes of one pair, in the order of the sequence.
OfPair(qs, pair) == SelectSeq(qs, LAMBDA x : x.pair = pair)

IsPrefix(a, b) == Len(a) <= Len(b) /\ SubSeq(b, 1, Len(a)) = a

\* C8: while the agent runs, every quote the fetcher publishes is received by
\* the planner, the quotes of one pair in the order they were published.
\* Stated as what eventual receipt needs in every state of a running agent:
\* each published quote has been received by the planner or waits on a
\* channel the planner receives from, and what the planner has received of a
\* pair is a prefix of what was published of it.
C8_QuotesReachPlanner ==
    agent_is_running =>
        /\ \A i \in 1..Len(published) : Received(i) \/ Pending(i)
        /\ \A pair \in 1..NumPairs :
              IsPrefix(OfPair(recent_quotes, pair), OfPair(published, pair))

\* C9: while the agent runs with learning enabled, every result the executor
\* emits is processed by the observer, which emits one feedback for it, and
\* the learning loop applies that feedback. Stated as what that chain needs
\* in every state of a running agent with learning enabled: the result
\* channel's receiver is held by the observer, the feedback channel's by the
\* learning loop, and no result emitted is lost.
C9_ResultsReachLearning ==
    (agent_is_running /\ learning_enabled) =>
        /\ chan["result"].rx = "observer"
        /\ chan["feedback"].rx = "learning_loop"
        /\ Len(chan["result"].q) + feedbacks_sent >= Len(results)

\* C10: every value written when an adjustment is applied keeps
\* priority_fee_percentile within [50, 99] and max_slippage_bps within
\* [10, 500], whatever the starting configuration and the feedbacks.
C10_WrittenWithinBounds ==
    \A w \in written :
        /\ w.param = "priority_fee_percentile" => w.value \in 50..99
        /\ w.param = "max_slippage_bps" => w.value \in 10..500

\* A feedback whose adjustments overshoot both ranges has been applied, and
\* the values written are the upper ends of the ranges.
C10_Witness ==
    /\ [param |-> "priority_fee_percentile", value |-> 99] \in written
    /\ [param |-> "max_slippage_bps", value |-> 500] \in written

\* C11: after any sequence of applied position_size_multiplier adjustments
\* the position size stays within 0.1 and 2.0 times the configured
\* position_size_usd.
C11_MultiplierWithinBounds ==
    \A w \in written :
        w.param = "position_size_multiplier" =>
            /\ 10 * w.value >= config_position_size_usd
            /\ w.value <= 2 * config_position_size_usd

\* The stage loops the agent has spawned have all left their loop: a task is
\* not spawned, has returned or has panicked. The loops of the executor and
\* of the observer are never spawned by start (trading_agent.rs 163-180).
ExitedPcs == {"none", "returned", "panicked"}

AllLoopsExited ==
    /\ \A r \in Runs : /\ fetcher_pc[r] \in ExitedPcs
                        /\ planner_pc[r] \in ExitedPcs
                        /\ learning_pc[r] \in ExitedPcs
    /\ exec_pc \in {"idle", "failed", "returned", "panicked"}

\* C12: after stop is called on a running agent every stage loop eventually
\* observes the stop flag and exits, even if no further message arrives
\* (unless the agent is started again first).
C12_LoopsExitAfterStop ==
    [](  (starts > 0 /\ ~agent_is_running)
      => <>(AllLoopsExited \/ agent_is_running))

\* C13: an agent stopped and started again with the same config produces,
\* when the quote API answers every tick alike, the same set of quotes on the
\* first tick after the second start as on the first tick after the first.
C13_SameFirstTick ==
    Cardinality(upstream) = 1 =>
        \A r \in Runs :
            (IsSome(first_tick[1]) /\ IsSome(first_tick[r]))
                => first_tick[r] = first_tick[1]

\* The agent was started, stopped and started again, and a tick after each
\* start has produced quotes.
C13_Witness ==
    /\ Cardinality(upstream) = 1
    /\ starts = 2
    /\ IsSome(first_tick[1])
    /\ IsSome(first_tick[2])
    /\ first_tick[2][1] # {}

\* C14: DCA returns a plan at most once per interval_hours per pair: when a
\* call of evaluate has returned a plan for a pair, the next call for that
\* pair, made less than interval_hours later, returns no plan (with
\* interval_hours = 1: a plan on the first tick, none 30 minutes later).
C14_DcaOncePerInterval ==
    [][ ( /\ IsSome(evaluated) /\ IsSome(evaluated')
          /\ evaluated[1].strategy = "DCA" /\ evaluated'[1].strategy = "DCA"
          /\ evaluated[1].result.kind = "Plan"
          /\ evaluated'[1].quote.pair = evaluated[1].quote.pair
          /\ evaluated'[1].quote.mints_valid
          /\ NumHours(evaluated'[1].at - evaluated[1].at) < interval_hours )
        => evaluated'[1].result.kind = "None" ]_vars

\* The quote of the spec's scenarios: in 1_000_000, out 1_100_000, slippage
\* 50 bps, platform fee 0, price impact 0 (an effective spread of 950 bps).
IsScenarioQuote(quote) ==
    /\ quote.input_amount = 1000000 /\ quote.output_amount = 1100000
    /\ quote.slippage_bps = 50 /\ quote.platform_fee_bps = 0
    /\ quote.price_impact_pct = 0 /\ quote.mints_valid

\* The last evaluation was of Arbitrage, on a quote with valid mints, with
\* the market-condition and risk checks satisfied.
ArbitrageChecksSatisfied ==
    /\ IsSome(evaluated)
    /\ evaluated[1].strategy = "Arbitrage"
    /\ evaluated[1].quote.mints_valid
    /\ CheckMarketConditions(evaluated[1].checks)
    /\ evaluated[1].checks.position_value
          <= evaluated[1].config.max_position_size_usd

\* C15: with the market-condition and risk checks satisfied, Arbitrage
\* evaluate returns no plan at an effective spread of min_spread_bps - 1 and
\* a plan at an effective spread of min_spread_bps; the scenario quote with
\* min_spread_bps = 1000 yields no plan.
C15_SpreadThreshold ==
    ArbitrageChecksSatisfied =>
        LET e == evaluated[1]
            spread == CalculateEffectiveSpread(e.quote) IN
        /\ spread = e.config.min_spread_bps - 1 => e.result.kind = "None"
        /\ spread = e.config.min_spread_bps => e.result.kind = "Plan"
        /\ (IsScenarioQuote(e.quote) /\ e.config.min_spread_bps = 1000)
              => e.result.kind = "None"

\* The last evaluation was the spec's first scenario: Arbitrage with
\* min_spread_bps = 500 and the default execution settings, on the scenario
\* quote, with the market-condition and risk checks satisfied.
IsScenarioOne ==
    /\ ArbitrageChecksSatisfied
    /\ IsScenarioQuote(evaluated[1].quote)
    /\ evaluated[1].config.min_spread_bps = 500
    /\ evaluated[1].config.max_priority_fee_lamports = 100000

\* The last evaluation returned a plan of the given confidence (thousandths)
\* that expires ArbitrageTtl seconds after it was built.
ReturnedPlanWith(confidence) ==
    /\ evaluated[1].result.kind = "Plan"
    /\ LET pl == evaluated[1].result.plan[1] IN
         /\ pl.confidence_score = confidence
         /\ pl.expires_at - pl.created_at - ArbitrageTtl \in 0..MaxNowDrift

\* C16 as stated: the scenario quote with min_spread_bps = 500 yields exactly
\* one plan, with confidence 0.70 and a TTL of 30 s.
C16_ScenarioConfidence070 == IsScenarioOne => ReturnedPlanWith(700)

\* C16, amended: the scenario quote with min_spread_bps = 500 yields exactly
\* one plan, with confidence 0.68 (0.5 + (950/500 - 1) * 0.2, on the
\* effective spread of 950 bps) and a TTL of 30 s.
C16_ScenarioConfidence068 == IsScenarioOne => ReturnedPlanWith(680)

\* The scenario was evaluated and returned a plan.
C16_Witness == IsScenarioOne /\ evaluated[1].result.kind = "Plan"

\* C17: every plan returned by Arbitrage or DCA has created_at < expires_at
\* and a min_output_amount of at most the output amount of the quote it was
\* built from.
C17_PlanWellFormed ==
    (IsSome(evaluated) /\ evaluated[1].result.kind = "Plan") =>
        LET pl == evaluated[1].result.plan[1] IN
        /\ pl.created_at < pl.expires_at
        /\ pl.min_output_amount <= evaluated[1].quote.output_amount

\* DCA has returned a plan, whose min_output_amount is below the quoted
\* output.
C17_Witness ==
    /\ IsSome(evaluated)
    /\ evaluated[1].strategy = "DCA"
    /\ evaluated[1].result.kind = "Plan"
    /\ evaluated[1].result.plan[1].min_output_amount
          < evaluated[1].quote.output_amount

\* The result last processed was successful, with the given execution time
\* and slippage.
ProcessedSuccess(execution_time_ms, actual_slippage_bps) ==
    /\ IsSome(processed)
    /\ processed[1].result.success
    /\ processed[1].result.execution_time_ms = execution_time_ms
    /\ processed[1].result.actual_slippage_bps = actual_slippage_bps

\* The rule of C18: for a successful result the time score is 1.0 below
\* 2000 ms, 0.7 below 5000 ms, else 0.3; the slippage score is 1.0 below
\* 50 bps, 0.7 below 100 bps, else 0.3, and 0.5 when the slippage is absent;
\* the mean of the two is Excellent from 0.8, Good from 0.6, Fair from 0.4,
\* else Poor. (Scores in tenths, the mean compared as the sum.)
QualityRuleHolds ==
    (IsSome(processed) /\ processed[1].result.success) =>
        LET t == processed[1].result.execution_time_ms
            sl == processed[1].result.actual_slippage_bps
            time_score == IF t < 2000 THEN 10 ELSE IF t < 5000 THEN 7 ELSE 3
            slip_score == IF sl = None THEN 5
                          ELSE IF sl[1] < 50 THEN 10
                          ELSE IF sl[1] < 100 THEN 7 ELSE 3
            sum == time_score + slip_score
        IN  processed[1].quality =
                IF sum >= 16 THEN "Excellent"
                ELSE IF sum >= 12 THEN "Good"
                ELSE IF sum >= 8 THEN "Fair" ELSE "Poor"

\* C18 as stated: the quality rule holds, and the results (1500 ms, 20 bps),
\* (2500 ms, 80 bps), (6000 ms, 200 bps), (900 ms, no slippage) are
\* classified Excellent, Good, Poor, Excellent.
C18_QualityBuckets ==
    /\ QualityRuleHolds
    /\ ProcessedSuccess(1500, Some(20)) => processed[1].quality = "Excellent"
    /\ ProcessedSuccess(2500, Some(80)) => processed[1].quality = "Good"
    /\ ProcessedSuccess(6000, Some(200)) => processed[1].quality = "Poor"
    /\ ProcessedSuccess(900, None) => processed[1].quality = "Excellent"

\* C18, amended: the quality rule holds, and the four results are classified
\* Excellent, Good, Poor, Good: without a slippage the score of the fourth is
\* (1.0 + 0.5) / 2 = 0.75.
C18_QualityBucketsAmended ==
    /\ QualityRuleHolds
    /\ ProcessedSuccess(1500, Some(20)) => processed[1].quality = "Excellent"
    /\ ProcessedSuccess(2500, Some(80)) => processed[1].quality = "Good"
    /\ ProcessedSuccess(6000, Some(200)) => processed[1].quality = "Poor"
    /\ ProcessedSuccess(900, None) => processed[1].quality = "Good"

\* The result of 900 ms without a slippage has been processed.
C18_Witness == ProcessedSuccess(900, None) /\ processed[1].quality = "Good"

\* C19: the adjustments of the feedback for a processed result are exactly
\* those of its quality bucket: Poor fee +5, slippage +10, position -0.10;
\* Fair fee +2, slippage +5; Good position +0.05; Excellent fee -1,
\* position +0.10.
C19_AdjustmentsOfBucket ==
    IsSome(processed) =>
        LET adj == processed[1].suggested_adjustments
            q == processed[1].quality
            has(names) == DOMAIN adj = names
        IN  /\ q = AssessExecutionQuality(processed[1].result)
            /\ q = "Poor" =>
                  /\ has({"priority_fee_percentile", "max_slippage_bps",
                          "position_size_multiplier"})
                  /\ adj["priority_fee_percentile"] = 5 * Scale
                  /\ adj["max_slippage_bps"] = 10 * Scale
                  /\ adj["position_size_multiplier"] * 10 = -Scale
            /\ q = "Fair" =>
                  /\ has({"priority_fee_percentile", "max_slippage_bps"})
                  /\ adj["priority_fee_percentile"] = 2 * Scale
                  /\ adj["max_slippage_bps"] = 5 * Scale
            /\ q = "Good" =>
                  /\ has({"position_size_multiplier"})
                  /\ adj["position_size_multiplier"] * 20 = Scale
            /\ q = "Excellent" =>
                  /\ has({"priority_fee_percentile", "position_size_multiplier"})
                  /\ adj["priority_fee_percentile"] = -Scale
                  /\ adj["position_size_multiplier"] * 10 = Scale

\* A result classified Fair has been processed and its feedback sent.
C19_Witness ==
    /\ IsSome(processed)
    /\ processed[1].quality = "Fair"
    /\ chan["feedback"].q # <<>>

\* The results processed so far that were successful.
Successes == {i \in 1..Len(execution_history) : execution_history[i].success}

\* C20: after N >= 1 results total_trades = N, successful_trades is the
\* number of successful ones (at most total_trades) and win_rate =
\* successful_trades / N (in thousandths).
C20_MetricsCount ==
    LET N == Len(execution_history) IN
    N >= 1 =>
        /\ performance_metrics.total_trades = N
        /\ performance_metrics.successful_trades = Cardinality(Successes)
        /\ performance_metrics.successful_trades
              <= performance_metrics.total_trades
        /\ performance_metrics.win_rate = (Cardinality(Successes) * Milli) \div N

\* Two results were processed, a failed one and then a successful one.
C20_Witness ==
    /\ Len(execution_history) = 2
    /\ ~execution_history[1].success
    /\ execution_history[2].success
    /\ performance_metrics.win_rate = Milli \div 2

\* C21: after each result is processed the execution history holds at most
\* 10000 entries; when the append takes it past 10000, exactly the 1000 oldest
\* entries are removed in that step and the rest keep their arrival order;
\* otherwise the history is the old one with the result appended.
C21_HistoryBounded ==
    [][LET h == execution_history
           h2 == execution_history'
           result == processed'[1].result
       IN  /\ Len(h2) <= 10000
           /\ IF Len(h) + 1 > 10000
                THEN /\ Len(h2) = Len(h) + 1 - 1000
                     /\ \A i \in 1..(Len(h2) - 1) : h2[i] = h[i + 1000]
                     /\ h2[Len(h2)] = result
                ELSE h2 = Append(h, result)]_vars

\* the history was full, a result was processed and the oldest 1000 went
C21_Witness ==
    /\ Len(execution_history) = 9001
    /\ execution_history[1].plan_id = 1001
    /\ execution_history[9001] = processed[1].result
    /\ performance_metrics.total_trades = 10001

\* The entries of qs that are the quote of pair i fetched on tick t.
OfTick(qs, i, t) == {j \in 1..Len(qs) : qs[j].pair = i /\ qs[j].tick = t}

\* C22: after a fetcher tick, every pair whose fetch succeeded on it is in the
\* quote cache with the quote of that tick and was published (handed to the
\* quote channel, and queued on it while its receiver lives) exactly once,
\* whatever the other fetches did; a pair whose fetch failed was not
\* published; when all fetches succeeded the cache holds one quote of that
\* tick for each of the NumPairs pairs.
C22_TickPublishesEachFetched ==
    IsSome(tick_outcome) =>
        LET t == fetch_ticks
            ok == tick_outcome[1].fetched
            once(i) == IF i \in ok THEN 1 ELSE 0
        IN  /\ \A i \in 1..NumPairs :
                  /\ Cardinality(OfTick(published, i, t)) = once(i)
                  /\ chan["quote"].rx # "dropped" =>
                        Cardinality(OfTick(chan["quote"].q, i, t)) = once(i)
                  /\ i \in ok =>
                        \E k \in DOMAIN quote_cache : quote_cache[k] = Quote(i, t)
            /\ ok = 1..NumPairs =>
                  /\ Cardinality(DOMAIN quote_cache) = NumPairs
                  /\ \A k \in DOMAIN quote_cache : quote_cache[k].tick = t

\* a second tick on which one fetch failed and the others succeeded, after a
\* first tick on which all succeeded
C22_Witness ==
    /\ fetch_ticks = 2
    /\ IsSome(tick_outcome)
    /\ tick_outcome[1].fetched = (1..NumPairs) \ {1}
    /\ tick_outcome[1].errors[1] = "Network"
    /\ Cardinality(DOMAIN quote_cache) = NumPairs
    /\ chan["quote"].rx = "caller"
    /\ Len(chan["quote"].q) = 2 * NumPairs - 1

\* C23: no failure met on a tick ends the fetcher loop. Whatever the fetches,
\* the price update and the sends of a tick returned, the tick ends at the
\* top of the loop; a started fetcher task that is no longer in its loop
\* finds is_running false (stop was called); and a pair whose fetch failed is
\* not fetched again on that tick: the tick leaves no quote of it.
C23_FailuresKeepLoop ==
    /\ [](\A r \in Runs :
            /\ (fetcher_is_running /\ fetcher_pc[r] \notin {"none", "spawned"})
                   => fetcher_pc[r] \in {"loop_top", "tick"}
            /\ IsSome(tick_outcome) =>
                 \A i \in (1..NumPairs) \ tick_outcome[1].fetched :
                    /\ OfTick(published, i, fetch_ticks) = {}
                    /\ \A k \in DOMAIN quote_cache :
                          quote_cache[k] # Quote(i, fetch_ticks))
    /\ [][\A r \in Runs :
            (fetcher_pc[r] = "tick" /\ fetcher_pc'[r] # "tick")
                => fetcher_pc'[r] = "loop_top"]_vars

\* the latest tick met a failed fetch of every kind of error but one pair, a
\* failed price update and a failed send, and the loop is at its next tick
C23_Witness ==
    /\ IsSome(tick_outcome)
    /\ tick_outcome[1].fetched = {NumPairs}
    /\ tick_outcome[1].errors[1] = "Parse"
    /\ tick_outcome[1].prices = "Err"
    /\ tick_outcome[1].send_failed
    /\ fetch_ticks = MaxFetchTicks
    /\ fetcher_is_running
    /\ fetcher_pc[1] = "tick"

\* A quote on which both the Arbitrage and the DCA strategy build a plan.
ProducesPlan(quote) ==
    quote.mints_valid /\ quote.output_amount > quote.input_amount

\* C24: on each periodic evaluation tick, on the advisor-guided path and on
\* the standard path alike, every configured strategy is evaluated at most
\* once and hands at most one plan to the plan channel, however many of the
\* recent quotes would each produce one; what the tick emits is exactly these
\* plans.
C24_OnePlanPerStrategy ==
    [][eval_ticks' # eval_ticks =>
         LET tick == planner_tick'[1]
             evals == tick.evaluations
         IN  /\ \A i \in 1..Len(evals) :
                  /\ Len(evals[i].plans) <= 1
                  /\ evals[i].strategy \in DOMAIN strategy_configs
                  /\ \A j \in 1..Len(evals) :
                       evals[i].strategy = evals[j].strategy => i = j
             /\ emitted_plans' = emitted_plans \o PlansOf(evals)
             /\ Len(emitted_plans') - Len(emitted_plans) <= Len(strategies)]_vars

\* Two recent quotes each produce a plan for both strategies of a planner
\* with Arbitrage and DCA, and a tick has emitted one plan for each.
C24_Witness ==
    /\ planner_tick # None
    /\ DOMAIN strategy_configs = {"Arbitrage", "DCA"}
    /\ Len(recent_quotes) = 2
    /\ \A i \in 1..2 : ProducesPlan(recent_quotes[i])
    /\ Len(planner_tick[1].evaluations) = 2
    /\ \A i \in 1..2 : Len(planner_tick[1].evaluations[i].plans) = 1

\* The order C25 states for a tick: the keys sorted by descending priority,
\* stable on ties, the base scores alone deciding without advisor output.
PriorityOrder(keys, ai_response) ==
    SortByPriority(keys, IF ai_response.ok THEN ai_response
                         ELSE [ok |-> TRUE, confidence |-> Milli, risk_score |-> 0])

\* C25: on each evaluation tick, with and without advisor output, the
\* strategies are evaluated, and their plans handed to the plan channel, in
\* descending priority with ties in a stable order.
C25_PriorityOrder ==
    [][eval_ticks' # eval_ticks =>
         LET tick == planner_tick'[1]
             evals == tick.evaluations
             order == PriorityOrder(strategies, tick.advisor)
         IN  /\ \A i \in 1..Len(evals) : evals[i].strategy = order[i]
             /\ emitted_plans' = emitted_plans \o PlansOf(evals)]_vars

\* C26: on a tick whose advisor request fails, every configured strategy is
\* still evaluated, the plans handed to the plan channel are the strategies'
\* own, confidence and execution context untouched, and the planner loop
\* goes on to its next round.
C26_AdvisorFailureStandardPath ==
    [][eval_ticks' # eval_ticks /\ ~planner_tick'[1].advisor.ok =>
         LET evals == planner_tick'[1].evaluations IN
         /\ {evals[i].strategy : i \in 1..Len(evals)} = DOMAIN strategy_configs
         /\ \A i \in 1..Len(evals) :
              \E own \in StrategyOnQuotes(evals[i].strategy,
                                          NewestFirst(recent_quotes, 3),
                                          market_conditions,
                                          strategy_configs[evals[i].strategy], now) :
                 evals[i].plans = own.plans
         /\ emitted_plans' = emitted_plans \o PlansOf(evals)
         /\ \A r \in Runs :
              planner_pc[r] = "select" => planner_pc'[r] = "loop_top"]_vars

\* C27: every plan handed to the plan channel has a confidence within
\* [0.0, 1.0], the plans whose confidence was multiplied by the advisor's
\* included, whatever response the client accepted.
C27_ConfidenceInUnitRange ==
    \A i \in 1..Len(emitted_plans) :
        /\ emitted_plans[i].confidence_score >= 0
        /\ emitted_plans[i].confidence_score <= Milli

\* C28: when the planner hands a plan to the plan channel after the receiver
\* of that channel was dropped, the planner task terminates, and the other
\* stages and the agent stay as they are.
C28_ClosedPlanChannelEndsPlanner ==
    [][\A r \in Runs :
          /\ planner_pc[r] = "select"
          /\ planner_pc'[r] # "select"
          /\ emitted_plans' # emitted_plans
          /\ chan["plan"].rx = "dropped"
          => /\ planner_pc'[r] \in {"returned", "panicked"}
             /\ UNCHANGED <<fetcher_pc, exec_pc, learning_pc, agent_is_running>>]_vars

\* the agents made so far: the one the server keeps and the one the latest
\* request made
AgentsMade ==
    (IF trading_agent = None THEN {} ELSE {trading_agent[1]})
    \cup (IF response = None \/ response.created = None THEN {}
          ELSE {response.created[1]})

\* C29: no agent is made from a configuration with a strategy config that
\* fails its strategy's validate (Arbitrage with min_spread_bps < 10 or
\* max_slippage_bps > 500, GridTrading with rebalance_threshold_pct outside
\* [0.01, 0.10]): every config of every agent made passes.
C29_InvalidConfigRejected ==
    \A agent \in AgentsMade :
        \A i \in 1..Len(agent.strategy_configs) :
            ValidateStrategyConfig(agent.strategy_configs[i]) = "Ok"

\* C30: a request whose strategy tag is not one of the five known tags is
\* answered with an error and no agent is made from it, on every route that
\* takes a strategy config for the agent.
C30_UnknownTagRejected ==
    response # None =>
        LET tags == CASE response.route = "start_agent" ->
                           {response.request.strategies[i].strategy_type :
                               i \in 1..Len(response.request.strategies)}
                      [] response.route = "update_strategy" ->
                           {response.request.strategy_type}
                      [] response.route = "start_trading" ->
                           {response.request.strategy}
        IN  (\E tag \in tags : tag \notin StrategyTypes) =>
                /\ response.status \notin {"OK", "success"}
                /\ response.created = None

\* C40: every plan the planner hands to the plan channel carries the tag of
\* the configured strategy whose evaluation produced it; a strategy
\* configured as MeanReversion or TrendFollowing yields no plan tagged
\* Arbitrage.
C40_PlanCarriesConfiguredTag ==
    planner_tick # None =>
        \A i \in 1..Len(planner_tick[1].evaluations) :
            LET entry == planner_tick[1].evaluations[i] IN
            \A j \in 1..Len(entry.plans) :
                entry.plans[j].strategy_type = entry.strategy

\* C33: the learning feedback of a result carries the strategy tag of the
\* plan whose execution produced the result; the result of a DCA plan yields
\* a feedback tagged DCA.
C33_FeedbackCarriesPlanTag ==
    processed # None =>
        processed[1].strategy_type = processed[1].plan_strategy_type

\* C36: once Executor::stop has returned (is_active is false) the executor
\* pulls no further plan from the plan channel and spawns no execution task,
\* also for plans sent afterwards.
C36_NoPullAfterStop ==
    [][~exec_is_active =>
          /\ pulled' = pulled
          /\ \A p \in PlanIds : task[p].pc = "none" => task'[p].pc = "none"]_vars

\* C39: a start after a stop starts a new processing loop: Executor::start
\* never ends in the "Executor already started" error for a missing
\* receiver, and is_active is true only while a loop of the executor exists.
C39_RestartStartsLoop ==
    /\ exec_pc # "failed"
    /\ exec_is_active => exec_pc \notin {"idle", "returned", "failed"}

\* C38: with every sender of its plan channel dropped the executor loop keeps
\* waiting or leaves cleanly; the closed channel never makes the task panic.
C38_ClosedInputNeverPanics ==
    exec_pc # "panicked"

\* the fetch loops in progress: the tasks of DataFetcher::start inside its
\* while loop
RunningFetchLoops == {r \in Runs : fetcher_pc[r] \in {"loop_top", "tick"}}

\* C35: under every interleaving of start and stop calls on one DataFetcher
\* at most one fetch loop is running at any time.
C35_OneFetchLoop ==
    Cardinality(RunningFetchLoops) <= 1

\* call c waits for a lock that call d holds in a conflicting mode, or for
\* which d asked earlier
Ahead(d, c, q) ==
    \E i, j \in 1..Len(q) : i < j /\ q[i] = d /\ q[j] = c
WaitsOn(c, d) ==
    /\ call_pc[c].waiting
    /\ LET l == NextStep(c).lock IN
         \/ rwlock[l].writer = Some(d)
         \/ NextStep(c).mode = "write" /\ rwlock[l].readers[d] > 0
         \/ Ahead(d, c, rwlock[l].queue)

\* C34: TradingAgent::stop and TradingAgent::get_stats called concurrently
\* never reach a state in which each waits for a lock the other holds.
C34_StopAndStatsComplete ==
    ~(WaitsOn("stop", "get_stats") /\ WaitsOn("get_stats", "stop"))

\* C37: a planner evaluation tick and a concurrent Planner::update_positions
\* never reach a state in which the tick and the writer wait for each other.
C37_TickAndWriterComplete ==
    ~(WaitsOn("tick", "update_positions") /\ WaitsOn("update_positions", "tick"))

\* strategy.rs 187, 372: the max_slippage_bps a plan created now carries is
\* the one of the configuration the planner was constructed with.
PlanMaxSlippageBps(tag) == strategy_configs[tag].max_slippage_bps

\* C31: once the learning loop has applied an adjustment to max_slippage_bps,
\* the plans of the planner eventually carry the adjusted value.
C31_PlansCarryAdjustment ==
    (strategy_config.max_slippage_bps # DefaultConfig.max_slippage_bps)
      ~> (\A tag \in DOMAIN strategy_configs :
            PlanMaxSlippageBps(tag) = strategy_config.max_slippage_bps)

\* C32: after the observer has sent a positions map, the planner eventually
\* evaluates against a positions map that holds what was sent.
C32_PlannerSeesPositions ==
    (feedbacks_sent > 0) ~> (planner_positions # {})

====
